---------------------------- MODULE Spec2Model ----------------------------
(***************************************************************************)
(* State-machine model of the relay bot of telegram_bot_improved.py: the   *)
(* registration conversation, the invite ledger, the membership            *)
(* synchroniser and the fan-out of signals and broadcasts.                 *)
(*                                                                         *)
(* One action models one handler invocation.  The application is built    *)
(* with Application.builder().token(...).build() (main, line 908), which   *)
(* processes updates one at a time, and the store methods are synchronous  *)
(* sqlite3 calls, so a handler runs to completion before the next update   *)
(* is dispatched.  The fan-out pass, which awaits one send_message per     *)
(* recipient, is modelled a second time step by step (variable pass), with *)
(* the other handlers allowed between its steps: this covers updates       *)
(* processed concurrently as well.                                         *)
(*                                                                         *)
(* Texts are sequences of characters (each character a one-element token), *)
(* so that len() and str.strip() are computed and not assumed.  Time is an *)
(* integer number of hours.                                                *)
(***************************************************************************)
EXTENDS Integers, Sequences, FiniteSets, TLC

VARIABLES
    users,          \* table users: a set of rows
    invite_links,   \* table invite_links: a set of rows
    signals,        \* table signals: rows in insertion (AUTOINCREMENT) order
    channel_events, \* table channel_events: rows in insertion order
    conv,           \* ConversationHandler state per identity
    user_data,      \* context.user_data per identity
    now,            \* datetime.now(), in hours
    seen,           \* identities from which an update has been handled
    redeems,        \* per token: times start took the mark_invite_used branch
    last,           \* the update handled last and what the handler answered
    pass,           \* the fan-out pass in progress: the locals of its coroutine
    bot_users       \* the users dict (users.json) of the two simpler variants

vars == <<users, invite_links, signals, channel_events, conv, user_data,
          now, seen, redeems, last, pass, bot_users>>

-----------------------------------------------------------------------------
(* Bounds of the model *)

MaxLen == 2
MaxTicks == 3
MaxEvents == 2
MaxSignals == 2
RedeemCap == 2
MaxPasses == 1

-----------------------------------------------------------------------------
(* Configuration (config.py) *)

UserIds == {1, 2, 3}

ADMIN_USER_IDS == {1}

INVITE_LINK_EXPIRY_HOURS == 24

\* The clock of the model advances in steps of half the validity period, so
\* that "before", "exactly at" and "after" the expiry are all reached.
ClockStep == INVITE_LINK_EXPIRY_HOURS \div 2

Tokens == {"tokA", "tokB"}

-----------------------------------------------------------------------------
(* Conversation states (line 48) and ConversationHandler.END *)

PHONE_NUMBER == "PHONE_NUMBER"
NAME == "NAME"
PRODUCT_ACCESS == "PRODUCT_ACCESS"
END == "END"

\* Python's None for a text value, and for validate_invite_link's result
None == <<"None">>
Invalid == 0

-----------------------------------------------------------------------------
(* Texts *)

TIER_BASIC == <<"medal3", " ", "p", "a", "y", "e">>
TIER_SILVER == <<"medal2", " ", "n", "o", "q", "r", "e", "i">>
TIER_GOLD == <<"medal1", " ", "t", "a", "l", "a", "i">>
TIER_VIP == <<"gem", " ", "V", "I", "P">>

\* the list of product_access_handler, line 402
TierLabels == {TIER_BASIC, TIER_SILVER, TIER_GOLD, TIER_VIP}

\* the cancel button of the phone keyboard, lines 343 and 362
CANCEL_TEXT == <<"cross", " ", "e", "n", "s", "e", "r", "a", "f">>

Alphabet == {" ", "a"}

SeqsUpTo(S, n) == UNION {[1..k -> S] : k \in 1..n}

\* Non-empty message texts (filters.TEXT needs a non-empty text)
Texts == SeqsUpTo(Alphabet, MaxLen) \cup TierLabels
            \cup {CANCEL_TEXT, TIER_VIP \o <<" ">>}

Phones == {<<"+", "1", "0", "0">>, <<"+", "2", "0", "0">>}

RECURSIVE lstrip(_)
lstrip(s) == IF s # <<>> /\ Head(s) = " " THEN lstrip(Tail(s)) ELSE s

RECURSIVE rstrip(_)
rstrip(s) == IF s # <<>> /\ s[Len(s)] = " "
             THEN rstrip(SubSeq(s, 1, Len(s) - 1)) ELSE s

\* str.lstrip() in the place of str.strip()
strip_left(s) == lstrip(s)

\* str.strip()
strip(s) == rstrip(lstrip(s))

-----------------------------------------------------------------------------
(* The store: class TelegramBot *)

\* used_date of a row that was never marked used (SQL NULL)
NullDate == -1

\* save_user as a plain INSERT into a table without its primary key: the
\* row of an earlier registration stays beside the new one
save_user_insert(U, user_id, phone, name, product_access, t) ==
    U \cup
    {[user_id |-> user_id, phone_number |-> phone, name |-> name,
      product_access |-> product_access, registration_date |-> t,
      is_active |-> 1, channel_member |-> 0, last_activity |-> t]}

\* save_user with the phone and name placeholders bound in the wrong order
save_user_swapped(U, user_id, phone, name, product_access, t) ==
    {r \in U : r.user_id # user_id} \cup
    {[user_id |-> user_id, phone_number |-> name, name |-> phone,
      product_access |-> product_access, registration_date |-> t,
      is_active |-> 1, channel_member |-> 0, last_activity |-> t]}

\* INSERT OR REPLACE INTO users: a row with the same primary key is deleted,
\* the new row takes the column defaults is_active = 1, channel_member = 0.
\* username, first_name and last_name come from the platform profile and are
\* read by no handler; they are left out of the row.
save_user(U, user_id, phone, name, product_access, t) ==
    {r \in U : r.user_id # user_id} \cup
    {[user_id |-> user_id, phone_number |-> phone, name |-> name,
      product_access |-> product_access, registration_date |-> t,
      is_active |-> 1, channel_member |-> 0, last_activity |-> t]}

\* get_user without its WHERE clause
get_user_any(U, user_id) == U

\* get_user finding no row
get_user_none(U, user_id) == {}

\* SELECT * FROM users WHERE user_id = ?  (the set of matching rows)
get_user(U, user_id) == {r \in U : r.user_id = user_id}

\* UPDATE users SET last_activity = ? WHERE user_id = ?
update_user_activity(U, user_id, t) ==
    {IF r.user_id = user_id THEN [r EXCEPT !.last_activity = t] ELSE r : r \in U}

\* UPDATE users SET channel_member = ? WHERE user_id = ?
update_channel_membership(U, user_id, is_member) ==
    {IF r.user_id = user_id
     THEN [r EXCEPT !.channel_member = IF is_member THEN 1 ELSE 0]
     ELSE r : r \in U}

\* A set of rows as the list a SELECT without ORDER BY returns: in rowid
\* order, and the rowid of users is user_id (INTEGER PRIMARY KEY).
RECURSIVE RowsInOrder(_)
RowsInOrder(R) ==
    IF R = {} THEN <<>>
    ELSE LET r == CHOOSE x \in R : \A y \in R : x.user_id <= y.user_id
         IN <<r>> \o RowsInOrder(R \ {r})

\* get_all_users(active_only=True)
get_all_users(U) == RowsInOrder({r \in U : r.is_active = 1})

\* get_channel_members without its filter
get_channel_members_all(U) == get_all_users(U)

\* [user for user in self.get_all_users() if user['channel_member']]
get_channel_members(U) ==
    SelectSeq(get_all_users(U), LAMBDA u : u.channel_member # 0)

\* generate_invite_link as INSERT OR REPLACE
generate_invite_link_replace(L, link_id, user_id, t) ==
    {r \in L : r.link_id # link_id} \cup
    {[link_id |-> link_id, user_id |-> user_id, created_date |-> t,
      expiry_date |-> t + INVITE_LINK_EXPIRY_HOURS,
      used |-> 0, used_date |-> NullDate]}

\* generate_invite_link into a table without its primary key: a second row
\* with the same link_id is stored
generate_invite_link_rebind(L, link_id, user_id, t) ==
    L \cup {[link_id |-> link_id, user_id |-> user_id, created_date |-> t,
             expiry_date |-> t + INVITE_LINK_EXPIRY_HOURS,
             used |-> 0, used_date |-> NullDate]}

\* INSERT INTO invite_links: link_id is the primary key, so an insert of a
\* link_id already in the table raises IntegrityError and stores nothing.
\* link_id is secrets.token_urlsafe(32), here a choice among Tokens.
generate_invite_link(L, link_id, user_id, t) ==
    IF \E r \in L : r.link_id = link_id
    THEN L
    ELSE L \cup {[link_id |-> link_id, user_id |-> user_id, created_date |-> t,
                  expiry_date |-> t + INVITE_LINK_EXPIRY_HOURS,
                  used |-> 0, used_date |-> NullDate]}

\* validate_invite_link with datetime.now() <= expiry_date
validate_invite_link_inclusive(L, link_id, t) ==
    LET result == {r \in L : r.link_id = link_id /\ r.used = 0}
    IN IF result # {}
       THEN LET r == CHOOSE x \in result : TRUE
            IN IF t <= r.expiry_date THEN r.user_id ELSE Invalid
       ELSE Invalid

\* validate_invite_link without "AND used = 0"
validate_invite_link_any_use(L, link_id, t) ==
    LET result == {r \in L : r.link_id = link_id}
    IN IF result # {}
       THEN LET r == CHOOSE x \in result : TRUE
            IN IF t < r.expiry_date THEN r.user_id ELSE Invalid
       ELSE Invalid

\* SELECT user_id, expiry_date ... WHERE link_id = ? AND used = 0, then
\* datetime.now() < expiry_date.  The timestamp is stored by sqlite3's
\* adapter as ISO text and read back with datetime.fromisoformat, which
\* returns the stored instant.
validate_invite_link(L, link_id, t) ==
    LET result == {r \in L : r.link_id = link_id /\ r.used = 0}
    IN IF result # {}
       THEN LET r == CHOOSE x \in result : TRUE
            IN IF t < r.expiry_date THEN r.user_id ELSE Invalid
       ELSE Invalid

\* mark_invite_used that sets used_date only
mark_invite_used_date_only(L, link_id, t) ==
    {IF r.link_id = link_id THEN [r EXCEPT !.used_date = t] ELSE r : r \in L}

\* UPDATE invite_links SET used = 1, used_date = ? WHERE link_id = ?
mark_invite_used(L, link_id, t) ==
    {IF r.link_id = link_id THEN [r EXCEPT !.used = 1, !.used_date = t] ELSE r
     : r \in L}

\* save_signal that writes one signal_type for every record
save_signal_one_type(S, signal_text, signal_type, admin_id, recipient_count) ==
    Append(S, [signal_text |-> signal_text, signal_type |-> "signal",
               admin_id |-> admin_id, recipient_count |-> recipient_count])

\* INSERT INTO signals.  The column sent_date is read by no code of the
\* repository and is left out of the row.
save_signal(S, signal_text, signal_type, admin_id, recipient_count) ==
    Append(S, [signal_text |-> signal_text, signal_type |-> signal_type,
               admin_id |-> admin_id, recipient_count |-> recipient_count])

\* log_channel_event that keeps the latest row of an identity only
log_channel_event_latest(E, user_id, event_type) ==
    Append(SelectSeq(E, LAMBDA e : e.user_id # user_id),
           [user_id |-> user_id, event_type |-> event_type])

\* INSERT INTO channel_events.  The columns event_date and details (always
\* "") are read by no code of the repository and are left out of the row.
log_channel_event(E, user_id, event_type) ==
    Append(E, [user_id |-> user_id, event_type |-> event_type])

-----------------------------------------------------------------------------
(* The platform: get_chat_member and send_message *)

\* ChatMemberStatus values, and "error" for a TelegramError of the query
MemberStatuses == {"creator", "administrator", "member", "restricted", "left", "kicked"}
QueryOutcomes == MemberStatuses \cup {"error"}

\* member.status in [MEMBER, ADMINISTRATOR, OWNER]
IsMemberStatus(status) == status \in {"member", "administrator", "creator"}

\* check_channel_membership logging only when the stored flag changes
check_channel_membership_edge(U, E, user_id, outcome, t) ==
    IF outcome = "error"
    THEN [users |-> U, events |-> E, is_member |-> FALSE]
    ELSE LET is_member == IsMemberStatus(outcome)
             status == IF is_member THEN "channel_joined" ELSE "channel_left"
             U1 == update_channel_membership(U, user_id, is_member)
         IN [users |-> U1,
             events |-> IF U1 = U THEN E
                        ELSE log_channel_event(E, user_id, status),
             is_member |-> is_member]

\* check_channel_membership: `outcome` is what get_chat_member answers.
\* Returns the tables after the call and the returned boolean.
check_channel_membership(U, E, user_id, outcome, t) ==
    IF outcome = "error"
    THEN [users |-> U, events |-> E, is_member |-> FALSE]
    ELSE LET is_member == IsMemberStatus(outcome)
             status == IF is_member THEN "channel_joined" ELSE "channel_left"
         IN [users |-> update_channel_membership(U, user_id, is_member),
             events |-> log_channel_event(E, user_id, status),
             is_member |-> is_member]

\* show_main_menu: touches the activity time, then syncs the membership
show_main_menu(U, E, user_id, outcome, t) ==
    check_channel_membership(update_user_activity(U, user_id, t), E,
                             user_id, outcome, t)

\* The loop without its try/except: the first failure ends the pass
RECURSIVE send_loop_abort(_, _, _)
send_loop_abort(recipients, failing, acc) ==
    IF recipients = <<>> THEN acc
    ELSE LET chat_id == Head(recipients).user_id
             ok == chat_id \notin failing
         IN IF ~ok
            THEN [acc EXCEPT !.attempts = Append(@, [chat_id |-> chat_id, ok |-> FALSE]),
                             !.failed_count = @ + 1]
            ELSE send_loop_abort(Tail(recipients), failing,
                    [acc EXCEPT !.attempts = Append(@, [chat_id |-> chat_id, ok |-> TRUE]),
                                !.sent_count = @ + 1])

\* The per-recipient loop of handle_admin_messages: `failing` is the set of
\* chat ids for which send_message raises.  Each recipient of the list is
\* tried in turn; the except clause counts the failure and goes on.
RECURSIVE send_loop(_, _, _)
send_loop(recipients, failing, acc) ==
    IF recipients = <<>> THEN acc
    ELSE LET chat_id == Head(recipients).user_id
             ok == chat_id \notin failing
         IN send_loop(Tail(recipients), failing,
                [attempts |-> Append(acc.attempts, [chat_id |-> chat_id, ok |-> ok]),
                 sent_count |-> IF ok THEN acc.sent_count + 1 ELSE acc.sent_count,
                 failed_count |-> IF ok THEN acc.failed_count
                                  ELSE acc.failed_count + 1])

\* sent_count = 0, failed_count = 0 before the loop
fan_out(recipients, failing) ==
    send_loop(recipients, failing,
              [attempts |-> <<>>, sent_count |-> 0, failed_count |-> 0])

-----------------------------------------------------------------------------
(* What a handler invocation leaves to observe *)

NoFan == [audience |-> <<>>, attempts |-> <<>>, sent_count |-> 0,
          failed_count |-> 0, total |-> 0, failing |-> {}]

\* kind: the kind of update; uid: its effective user; reply: the message the
\* handler answers with ("none": no handler took the update, or it answered
\* nothing); args: context.args of a /start, else the values the reply
\* shows (the phone, the name, the registered profile, the issued link),
\* or what get_chat_member answered to a membership button;
\* first: the identity had sent nothing before; fan: the fan-out report.
Answer(kind, uid, args, reply, fan) ==
    [kind |-> kind, uid |-> uid, args |-> args, reply |-> reply,
     first |-> uid \notin seen, fan |-> fan]

\* No pass in progress
NoPass == [active |-> FALSE, kind |-> "none", admin_id |-> 0, text |-> <<>>,
           audience |-> <<>>, attempts |-> <<>>, sent_count |-> 0,
           failed_count |-> 0]

EmptyUserData == [phone_number |-> None, name |-> None,
                  from_invite_link |-> FALSE, waiting_for_signal |-> FALSE,
                  waiting_for_broadcast |-> FALSE]

\* The two simpler variants, which share their handlers but for the steps
\* after the name: src/src/bot.py ("bot") and src/telegram_signal_bot.py
\* ("signal_bot")
Variants == {"bot", "signal_bot"}

\* user_id not in users: no entry of the dict
NoBotUser == [step |-> "none", phone |-> None, name |-> None,
              product |-> None]

Init ==
    /\ users = {}
    /\ invite_links = {}
    /\ signals = <<>>
    /\ channel_events = <<>>
    /\ conv = [i \in UserIds |-> END]
    /\ user_data = [i \in UserIds |-> EmptyUserData]
    /\ now = 0
    /\ seen = {}
    /\ redeems = [k \in Tokens |-> 0]
    /\ last = [kind |-> "init", uid |-> 0, args |-> <<>>, reply |-> "none",
               first |-> FALSE, fan |-> NoFan]
    /\ pass = NoPass
    /\ bot_users = [v \in Variants |-> [i \in UserIds |-> NoBotUser]]

-----------------------------------------------------------------------------
(* The registration conversation: conv_handler of main, lines 911-922.     *)
(* An identity with no conversation state is offered the entry point       *)
(* (/start) only; one with a state is offered the handlers of that state,  *)
(* then the fallback (/cancel).                                            *)

\* line 327 without its test: every presented link is marked used
honoured_always(valid_user_id, user_id) == TRUE

\* line 327: valid_user_id and valid_user_id == user.id
honoured_any_owner(valid_user_id, user_id) == valid_user_id # Invalid

honoured(valid_user_id, user_id) ==
    valid_user_id # Invalid /\ valid_user_id = user_id

\* line 376: len(name) < 2
name_too_short_empty_only(name) == Len(name) < 1

name_too_short(name) == Len(name) < 2

\* line 402: product_access in the list of the four labels
listed_tier_stripped(product_access) == strip(product_access) \in TierLabels

listed_tier(product_access) == product_access \in TierLabels

\* start: the entry point.  args is context.args: <<>> or <<link_id>>;
\* outcome is what get_chat_member answers if the main menu is shown.
start(i, args, outcome) ==
    /\ conv[i] = END
    /\ seen' = seen \cup {i}
    /\ UNCHANGED <<pass, bot_users>>
    /\ LET U1 == update_user_activity(users, i, now)
       IN IF get_user(U1, i) # {}
          THEN \* already registered: main menu, ConversationHandler.END
                 LET m == show_main_menu(U1, channel_events, i, outcome, now)
                 IN /\ Len(m.events) <= MaxEvents
                    /\ users' = m.users
                    /\ channel_events' = m.events
                    /\ last' = Answer("start", i, args, "main_menu", NoFan)
                    /\ UNCHANGED <<invite_links, signals, conv, user_data,
                                   now, redeems>>
          ELSE LET link_id == IF args # <<>> THEN args[1] ELSE "no_args"
                   valid_user_id == IF args # <<>>
                                    THEN validate_invite_link(invite_links, link_id, now)
                                    ELSE Invalid
                   redeem == honoured(valid_user_id, i)
               IN /\ users' = U1
                  /\ invite_links' = IF redeem
                                     THEN mark_invite_used(invite_links, link_id, now)
                                     ELSE invite_links
                  /\ user_data' = IF redeem
                                  THEN [user_data EXCEPT ![i].from_invite_link = TRUE]
                                  ELSE user_data
                  /\ redeems' = IF redeem
                                THEN [redeems EXCEPT ![link_id] =
                                        IF @ < RedeemCap THEN @ + 1 ELSE @]
                                ELSE redeems
                  /\ conv' = [conv EXCEPT ![i] = PHONE_NUMBER]
                  /\ last' = Answer("start", i, args, "welcome", NoFan)
                  /\ UNCHANGED <<signals, channel_events, now>>

\* phone_number_handler on a contact message (filters.CONTACT)
phone_number_handler_contact(i, phone_number) ==
    /\ conv[i] = PHONE_NUMBER
    /\ seen' = seen \cup {i}
    /\ UNCHANGED <<pass, bot_users>>
    /\ user_data' = [user_data EXCEPT ![i].phone_number = phone_number]
    /\ conv' = [conv EXCEPT ![i] = NAME]
    /\ last' = Answer("contact", i, <<phone_number>>, "phone_ok", NoFan)
    /\ UNCHANGED <<users, invite_links, signals, channel_events, now, redeems>>

\* phone_number_handler taking a text that is not the cancel button for
\* the phone number
phone_number_handler_text_as_phone(i, text) ==
    /\ conv[i] = PHONE_NUMBER
    /\ seen' = seen \cup {i}
    /\ UNCHANGED <<pass, bot_users>>
    /\ IF text = CANCEL_TEXT
       THEN /\ conv' = [conv EXCEPT ![i] = END]
            /\ user_data' = user_data
            /\ last' = Answer("text", i, <<>>, "registration_cancelled", NoFan)
       ELSE /\ conv' = [conv EXCEPT ![i] = NAME]
            /\ user_data' = [user_data EXCEPT ![i].phone_number = text]
            /\ last' = Answer("text", i, <<text>>, "phone_ok", NoFan)
    /\ UNCHANGED <<users, invite_links, signals, channel_events, now, redeems>>

\* phone_number_handler on a text message (filters.TEXT & ~filters.COMMAND)
phone_number_handler_text(i, text) ==
    /\ conv[i] = PHONE_NUMBER
    /\ seen' = seen \cup {i}
    /\ UNCHANGED <<pass, bot_users>>
    /\ IF text = CANCEL_TEXT
       THEN /\ conv' = [conv EXCEPT ![i] = END]
            /\ last' = Answer("text", i, <<>>, "registration_cancelled", NoFan)
       ELSE /\ conv' = conv
            /\ last' = Answer("text", i, <<>>, "use_share_button", NoFan)
    /\ UNCHANGED <<users, invite_links, signals, channel_events, user_data,
                   now, redeems>>

\* name_handler
name_handler(i, text) ==
    /\ conv[i] = NAME
    /\ seen' = seen \cup {i}
    /\ UNCHANGED <<pass, bot_users>>
    /\ LET name == strip(text)
       IN IF name_too_short(name)
          THEN /\ conv' = conv
               /\ user_data' = user_data
               /\ last' = Answer("text", i, <<>>, "name_invalid", NoFan)
          ELSE /\ user_data' = [user_data EXCEPT ![i].name = name]
               /\ conv' = [conv EXCEPT ![i] = PRODUCT_ACCESS]
               /\ last' = Answer("text", i, <<name>>, "name_ok", NoFan)
    /\ UNCHANGED <<users, invite_links, signals, channel_events, now, redeems>>

\* product_access_handler with check_channel_membership and
\* show_main_menu called before save_user
product_access_handler_sync_first(i, text, o1, o2) ==
    /\ conv[i] = PRODUCT_ACCESS
    /\ seen' = seen \cup {i}
    /\ UNCHANGED <<pass, bot_users>>
    /\ IF ~listed_tier(text)
       THEN /\ last' = Answer("text", i, <<>>, "tier_invalid", NoFan)
            /\ UNCHANGED <<users, channel_events, conv>>
       ELSE   LET c == check_channel_membership(users, channel_events, i, o1, now)
                  m == show_main_menu(c.users, c.events, i, o2, now)
              IN /\ Len(m.events) <= MaxEvents
                 /\ users' = save_user(m.users, i, user_data[i].phone_number,
                                       user_data[i].name, text, now)
                 /\ channel_events' = m.events
                 /\ conv' = [conv EXCEPT ![i] = END]
                 /\ last' = Answer("text", i,
                                   <<user_data[i].phone_number,
                                     user_data[i].name, text>>,
                                   "registered", NoFan)
    /\ UNCHANGED <<invite_links, signals, user_data, now, redeems>>

\* product_access_handler: on a listed tier, save_user, then
\* check_channel_membership (line 419), then show_main_menu (line 438);
\* o1 and o2 are what get_chat_member answers to the two queries.
product_access_handler(i, text, o1, o2) ==
    /\ conv[i] = PRODUCT_ACCESS
    /\ seen' = seen \cup {i}
    /\ UNCHANGED <<pass, bot_users>>
    /\ IF ~listed_tier(text)
       THEN /\ last' = Answer("text", i, <<>>, "tier_invalid", NoFan)
            /\ UNCHANGED <<users, channel_events, conv>>
       ELSE   LET U1 == save_user(users, i, user_data[i].phone_number,
                                  user_data[i].name, text, now)
                  c == check_channel_membership(U1, channel_events, i, o1, now)
                  m == show_main_menu(c.users, c.events, i, o2, now)
              IN /\ Len(m.events) <= MaxEvents
                 /\ users' = m.users
                 /\ channel_events' = m.events
                 /\ conv' = [conv EXCEPT ![i] = END]
                 /\ last' = Answer("text", i,
                                   <<user_data[i].phone_number,
                                     user_data[i].name, text>>,
                                   "registered", NoFan)
    /\ UNCHANGED <<invite_links, signals, user_data, now, redeems>>

\* cancel answering without ending the conversation
cancel_stays(i) ==
    /\ conv[i] # END
    /\ seen' = seen \cup {i}
    /\ last' = Answer("cancel", i, <<>>, "cancelled", NoFan)
    /\ UNCHANGED <<users, invite_links, signals, channel_events, conv,
                   user_data, now, redeems, pass,
                   bot_users>>

\* cancel: the fallback CommandHandler("cancel")
cancel(i) ==
    /\ conv[i] # END
    /\ seen' = seen \cup {i}
    /\ UNCHANGED <<pass, bot_users>>
    /\ conv' = [conv EXCEPT ![i] = END]
    /\ last' = Answer("cancel", i, <<>>, "cancelled", NoFan)
    /\ UNCHANGED <<users, invite_links, signals, channel_events, user_data,
                   now, redeems>>

-----------------------------------------------------------------------------
(* The handlers registered after conv_handler, lines 926-928 *)

\* menu_command: CommandHandler("menu"); a command is taken by no state of
\* the conversation, so /menu reaches it in every conversation state.
menu_command(i, outcome) ==
    /\ seen' = seen \cup {i}
    /\ UNCHANGED <<pass, bot_users>>
    /\   LET m == show_main_menu(users, channel_events, i, outcome, now)
         IN /\ Len(m.events) <= MaxEvents
            /\ users' = m.users
            /\ channel_events' = m.events
    /\ last' = Answer("menu", i, <<>>, "main_menu", NoFan)
    /\ UNCHANGED <<invite_links, signals, conv, user_data, now, redeems>>

\* button_handler, query.data == "profile": show_profile
button_profile(i) ==
    /\ seen' = seen \cup {i}
    /\ UNCHANGED <<pass, bot_users>>
    /\ users' = update_user_activity(users, i, now)
    /\ last' = Answer("button", i, <<>>,
                      IF get_user(users', i) = {} THEN "profile_not_found"
                      ELSE "profile", NoFan)
    /\ UNCHANGED <<invite_links, signals, channel_events, conv, user_data,
                   now, redeems>>

\* button_handler, query.data == "get_channel_link": get_channel_link.
\* An IntegrityError of the insert ends the handler with no answer.
button_get_channel_link(i, link_id) ==
    /\ seen' = seen \cup {i}
    /\ UNCHANGED <<pass, bot_users>>
    /\ users' = update_user_activity(users, i, now)
    /\ invite_links' = generate_invite_link(invite_links, link_id, i, now)
    /\ last' = Answer("button", i, <<link_id>>,
                      IF \E r \in invite_links : r.link_id = link_id
                      THEN "none" ELSE "invite_link", NoFan)
    /\ UNCHANGED <<signals, channel_events, conv, user_data, now, redeems>>

\* button_handler, query.data in {"membership_status", "refresh_membership"}:
\* show_membership_status and refresh_membership
button_membership(i, data, outcome) ==
    /\ seen' = seen \cup {i}
    /\ UNCHANGED <<pass, bot_users>>
    /\   LET c == check_channel_membership(update_user_activity(users, i, now),
                                           channel_events, i, outcome, now)
         IN /\ Len(c.events) <= MaxEvents
            /\ users' = c.users
            /\ channel_events' = c.events
            /\ last' = Answer("button", i, <<outcome>>,
                              IF c.is_member THEN "is_member" ELSE "not_member",
                              NoFan)
    /\ UNCHANGED <<invite_links, signals, conv, user_data, now, redeems>>

\* button_handler, query.data == "back_to_main": show_main_menu
button_back_to_main(i, outcome) ==
    /\ seen' = seen \cup {i}
    /\ UNCHANGED <<pass, bot_users>>
    /\   LET m == show_main_menu(update_user_activity(users, i, now),
                                 channel_events, i, outcome, now)
         IN /\ Len(m.events) <= MaxEvents
            /\ users' = m.users
            /\ channel_events' = m.events
    /\ last' = Answer("button", i, <<>>, "main_menu", NoFan)
    /\ UNCHANGED <<invite_links, signals, conv, user_data, now, redeems>>

\* button_handler, query.data == "channel_stats": show_channel_stats.
\* member_count/total_users raises ZeroDivisionError when no user is active.
button_channel_stats(i) ==
    /\ seen' = seen \cup {i}
    /\ UNCHANGED <<pass, bot_users>>
    /\ users' = update_user_activity(users, i, now)
    /\ last' = Answer("button", i, <<>>,
                      IF Len(get_all_users(users')) = 0 THEN "error"
                      ELSE "channel_stats", NoFan)
    /\ UNCHANGED <<invite_links, signals, channel_events, conv, user_data,
                   now, redeems>>

\* the allow-list check that lets every identity through
is_admin_anyone(user_id) == TRUE

\* user.id in config.ADMIN_USER_IDS (lines 657, 689, 716, 734)
is_admin(user_id) == user_id \in ADMIN_USER_IDS

\* button_handler, query.data == "admin_panel": show_admin_panel
button_admin_panel(i) ==
    /\ seen' = seen \cup {i}
    /\ UNCHANGED <<pass, bot_users>>
    /\ users' = update_user_activity(users, i, now)
    /\ last' = Answer("button", i, <<>>,
                      IF ~is_admin(i) THEN "no_admin_access"
                      ELSE IF Len(get_all_users(users')) = 0 THEN "error"
                      ELSE "admin_panel", NoFan)
    /\ UNCHANGED <<invite_links, signals, channel_events, conv, user_data,
                   now, redeems>>

\* button_handler, query.data == "user_list": show_user_list
button_user_list(i) ==
    /\ seen' = seen \cup {i}
    /\ UNCHANGED <<pass, bot_users>>
    /\ users' = update_user_activity(users, i, now)
    /\ last' = Answer("button", i, <<>>,
                      IF ~is_admin(i) THEN "none" ELSE "user_list",
                      NoFan)
    /\ UNCHANGED <<invite_links, signals, channel_events, conv, user_data,
                   now, redeems>>

\* button_handler, query.data == "send_signal": send_signal_prompt
button_send_signal(i) ==
    /\ seen' = seen \cup {i}
    /\ UNCHANGED <<pass, bot_users>>
    /\ users' = update_user_activity(users, i, now)
    /\ IF ~is_admin(i)
       THEN /\ user_data' = user_data
            /\ last' = Answer("button", i, <<>>, "none", NoFan)
       ELSE /\ user_data' = [user_data EXCEPT ![i].waiting_for_signal = TRUE]
            /\ last' = Answer("button", i, <<>>, "signal_prompt", NoFan)
    /\ UNCHANGED <<invite_links, signals, channel_events, conv, now, redeems>>

\* button_handler, query.data == "broadcast_message": broadcast_prompt
button_broadcast_message(i) ==
    /\ seen' = seen \cup {i}
    /\ UNCHANGED <<pass, bot_users>>
    /\ users' = update_user_activity(users, i, now)
    /\ IF ~is_admin(i)
       THEN /\ user_data' = user_data
            /\ last' = Answer("button", i, <<>>, "none", NoFan)
       ELSE /\ user_data' = [user_data EXCEPT ![i].waiting_for_broadcast = TRUE]
            /\ last' = Answer("button", i, <<>>, "broadcast_prompt", NoFan)
    /\ UNCHANGED <<invite_links, signals, channel_events, conv, now, redeems>>

\* line 752 without its return: any identity is served
pending_prompt_ungated(user_id, ud) ==
    IF ud.waiting_for_signal THEN "signal"
    ELSE IF ud.waiting_for_broadcast THEN "broadcast"
    ELSE "none"

\* handle_admin_messages, lines 752-755 and 792: the branch a text takes
pending_prompt(user_id, ud) ==
    IF user_id \notin ADMIN_USER_IDS THEN "denied"
    ELSE IF ud.waiting_for_signal THEN "signal"
    ELSE IF ud.waiting_for_broadcast THEN "broadcast"
    ELSE "none"

\* The report of one pass over `recipients`
FanReport(recipients, failing) ==
    LET r == fan_out(recipients, failing)
    IN [audience |-> [k \in 1..Len(recipients) |-> recipients[k].user_id],
        attempts |-> r.attempts, sent_count |-> r.sent_count,
        failed_count |-> r.failed_count, total |-> Len(recipients),
        failing |-> failing]

\* handle_admin_messages: MessageHandler(filters.TEXT & ~filters.COMMAND),
\* reached by a text of an identity that is in no conversation.
handle_admin_messages(i, text, failing) ==
    /\ conv[i] = END
    /\ seen' = seen \cup {i}
    /\ UNCHANGED <<pass, bot_users>>
    /\ IF pending_prompt(i, user_data[i]) = "denied"
       THEN /\ last' = Answer("text", i, <<>>, "none", NoFan)
            /\ UNCHANGED <<signals, user_data>>
       ELSE IF pending_prompt(i, user_data[i]) = "signal"
       THEN LET fan == FanReport(get_channel_members(users), failing)
            IN /\ Len(signals) < MaxSignals
               /\ signals' = save_signal(signals, text, "signal", i,
                                         fan.sent_count)
               /\ user_data' = [user_data EXCEPT ![i].waiting_for_signal = FALSE]
               /\ last' = Answer("text", i, <<>>, "signal_sent", fan)
       ELSE IF pending_prompt(i, user_data[i]) = "broadcast"
       THEN LET fan == FanReport(get_all_users(users), failing)
            IN /\ Len(signals) < MaxSignals
               /\ signals' = save_signal(signals, text, "broadcast", i,
                                         fan.sent_count)
               /\ user_data' = [user_data EXCEPT ![i].waiting_for_broadcast = FALSE]
               /\ last' = Answer("text", i, <<>>, "broadcast_sent", fan)
       ELSE /\ last' = Answer("text", i, <<>>, "none", NoFan)
            /\ UNCHANGED <<signals, user_data>>
    /\ UNCHANGED <<users, invite_links, channel_events, conv, now, redeems>>

-----------------------------------------------------------------------------
(* The fan-out pass, one await at a time.  pass holds the locals of the    *)
(* running coroutine: the audience is the list read before the loop, and   *)
(* each send_message is one step.  At most one pass runs at a time.        *)

\* the list a pass reads before its loop: get_all_users() for a broadcast
\* (line 796), get_channel_members() for a signal (line 759) and for an
\* auto-forward (line 837)
audience_of(U, kind) ==
    IF kind = "broadcast" THEN get_all_users(U) ELSE get_channel_members(U)

\* user_data['user_id'] of each row of the list
UserIdsOf(rows) == [k \in 1..Len(rows) |-> rows[k].user_id]

\* save_signal written with len(audience) in place of sent_count
recorded_count_audience(p) == Len(p.audience)

\* the recipient_count handed to save_signal: sent_count (lines 777, 814, 853)
recorded_count(p) == p.sent_count

\* The report of a pass that has made all its attempts
PassReport(p) ==
    [audience |-> p.audience, attempts |-> p.attempts,
     sent_count |-> p.sent_count, failed_count |-> p.failed_count,
     total |-> Len(p.audience),
     failing |-> {p.attempts[k].chat_id :
                     k \in {j \in 1..Len(p.attempts) : ~p.attempts[j].ok}}]

\* handle_admin_messages of an admin with a pending prompt, up to its loop
pass_begin(i, text) ==
    /\ conv[i] = END
    /\ ~pass.active
    /\ pending_prompt(i, user_data[i]) \in {"signal", "broadcast"}
    /\ Len(signals) < MaxPasses
    /\ seen' = seen \cup {i}
    /\ LET kind == pending_prompt(i, user_data[i])
       IN pass' = [active |-> TRUE, kind |-> kind, admin_id |-> i,
                   text |-> text,
                   audience |-> UserIdsOf(audience_of(users, kind)),
                   attempts |-> <<>>, sent_count |-> 0, failed_count |-> 0]
    /\ last' = Answer("text", i, <<>>, "pass_started", NoFan)
    /\ UNCHANGED <<users, invite_links, signals, channel_events, conv,
                   user_data, now, redeems>>
    /\ UNCHANGED bot_users

\* A channel post.  content is "text" (the post has a text), "caption" (a
\* media post with a caption) or "bare" (neither).  A post with a text is
\* matched by filters.TEXT & ~filters.COMMAND of handle_admin_messages,
\* registered before handle_channel_posts (lines 928, 930): a channel post
\* has no effective_user and user.id raises AttributeError.  The other
\* posts reach handle_channel_posts, here up to its loop.
channel_post(in_signal_channel, content, post_text) ==
    /\ ~pass.active
    /\ IF content = "text"
       THEN /\ pass' = pass
            /\ last' = [kind |-> "channel_post", uid |-> 0, args |-> <<>>,
                        reply |-> "error", first |-> FALSE, fan |-> NoFan]
       ELSE IF in_signal_channel /\ content = "caption"
       THEN /\ Len(signals) < MaxPasses
            /\ pass' = [active |-> TRUE, kind |-> "auto_forward",
                        admin_id |-> 0, text |-> post_text,
                        audience |-> UserIdsOf(audience_of(users, "auto_forward")),
                        attempts |-> <<>>, sent_count |-> 0,
                        failed_count |-> 0]
            /\ last' = [kind |-> "channel_post", uid |-> 0, args |-> <<>>,
                        reply |-> "pass_started", first |-> FALSE,
                        fan |-> NoFan]
       ELSE /\ pass' = pass
            /\ last' = [kind |-> "channel_post", uid |-> 0, args |-> <<>>,
                        reply |-> "none", first |-> FALSE, fan |-> NoFan]
    /\ UNCHANGED <<users, invite_links, signals, channel_events, conv,
                   user_data, now, seen, redeems>>
    /\ UNCHANGED bot_users

\* The loop as a live cursor: the audience is read again at each iteration
pass_send_live(ok) ==
    /\ pass.active
    /\ LET a == UserIdsOf(audience_of(users, pass.kind))
       IN /\ Len(pass.attempts) < Len(a)
          /\ pass' = [pass EXCEPT
                        !.audience = a,
                        !.attempts = Append(@, [chat_id |-> a[Len(pass.attempts) + 1],
                                                ok |-> ok]),
                        !.sent_count = IF ok THEN @ + 1 ELSE @,
                        !.failed_count = IF ok \/ pass.kind = "auto_forward"
                                         THEN @ ELSE @ + 1]
    /\ UNCHANGED <<users, invite_links, signals, channel_events, conv,
                   user_data, now, seen, redeems, last>>
    /\ UNCHANGED bot_users

\* One iteration of the loop: await send_message returns (ok) or raises
\* and the exception is caught.  handle_channel_posts keeps no
\* failed_count.
pass_send(ok) ==
    /\ pass.active
    /\ Len(pass.attempts) < Len(pass.audience)
    /\ pass' = [pass EXCEPT
                  !.attempts = Append(@, [chat_id |-> pass.audience[Len(pass.attempts) + 1],
                                          ok |-> ok]),
                  !.sent_count = IF ok THEN @ + 1 ELSE @,
                  !.failed_count = IF ok \/ pass.kind = "auto_forward"
                                   THEN @ ELSE @ + 1]
    /\ UNCHANGED <<users, invite_links, signals, channel_events, conv,
                   user_data, now, seen, redeems, last>>
    /\ UNCHANGED bot_users

\* After the loop: save_signal, the report to the admin, the prompt flag
pass_end ==
    /\ pass.active
    /\ Len(pass.attempts) = Len(pass.audience)
    /\ signals' = save_signal(signals, pass.text, pass.kind, pass.admin_id,
                              recorded_count(pass))
    /\ user_data' =
          IF pass.kind = "signal"
          THEN [user_data EXCEPT ![pass.admin_id].waiting_for_signal = FALSE]
          ELSE IF pass.kind = "broadcast"
          THEN [user_data EXCEPT ![pass.admin_id].waiting_for_broadcast = FALSE]
          ELSE user_data
    /\ last' = [kind |-> IF pass.kind = "auto_forward" THEN "channel_post"
                         ELSE "text",
                uid |-> pass.admin_id, args |-> <<>>,
                reply |-> IF pass.kind = "signal" THEN "signal_sent"
                          ELSE IF pass.kind = "broadcast" THEN "broadcast_sent"
                          ELSE "auto_forwarded",
                first |-> FALSE, fan |-> PassReport(pass)]
    /\ pass' = NoPass
    /\ UNCHANGED <<users, invite_links, channel_events, conv, now, seen,
                   redeems>>
    /\ UNCHANGED bot_users

-----------------------------------------------------------------------------
(* chat_member_handler, lines 857-887: a pushed membership change.  The    *)
(* handler is modelled as called with every chat_member update.            *)

\* the handler writing on every notification
membership_changed_always(was_member, is_member) == TRUE

\* line 871: was_member != is_member
membership_changed(was_member, is_member) == was_member # is_member

\* from_id is update.chat_member.from_user.id, the identity that made the
\* change and the one the handler writes and welcomes (line 860);
\* subject_id is update.chat_member.new_chat_member.user.id, the identity
\* whose status changed, which the handler does not read; welcome_ok: send_message returns (else it raises
\* and the exception is caught).
chat_member_handler(from_id, subject_id, in_signal_channel, old_status, new_status, welcome_ok) ==
    LET was_member == IsMemberStatus(old_status)
        is_member == IsMemberStatus(new_status)
    IN /\ IF in_signal_channel /\ membership_changed(was_member, is_member)
          THEN /\ Len(channel_events) < MaxEvents
               /\ users' = update_channel_membership(users, from_id, is_member)
               /\ channel_events' =
                     log_channel_event(channel_events, from_id,
                                       IF is_member THEN "channel_joined"
                                       ELSE "channel_left")
               /\ last' = [kind |-> "chat_member", uid |-> from_id,
                           args |-> <<IF in_signal_channel
                                      THEN "signal_channel" ELSE "other_chat",
                                      old_status, new_status, subject_id>>,
                           reply |-> IF ~is_member THEN "none"
                                     ELSE IF welcome_ok THEN "welcome_member"
                                     ELSE "welcome_failed",
                           first |-> FALSE, fan |-> NoFan]
          ELSE /\ UNCHANGED <<users, channel_events>>
               /\ last' = [kind |-> "chat_member", uid |-> from_id,
                           args |-> <<IF in_signal_channel
                                      THEN "signal_channel" ELSE "other_chat",
                                      old_status, new_status, subject_id>>,
                           reply |-> "none", first |-> FALSE, fan |-> NoFan]
       /\ UNCHANGED <<invite_links, signals, conv, user_data, now, seen,
                      redeems, pass,
                   bot_users>>

\* The conversation built with allow_reentry=True: a /start inside a
\* conversation enters it again at PHONE_NUMBER
unhandled_reentry(i, kind) ==
    /\ CASE kind = "contact" -> conv[i] # PHONE_NUMBER
         [] kind = "start" -> conv[i] # END
         [] kind = "cancel" -> conv[i] = END
         [] OTHER -> FALSE
    /\ seen' = seen \cup {i}
    /\ UNCHANGED <<pass, bot_users>>
    /\ conv' = IF kind = "start" THEN [conv EXCEPT ![i] = PHONE_NUMBER]
               ELSE conv
    /\ last' = Answer(kind, i, <<>>,
                      IF kind = "start" THEN "welcome" ELSE "none", NoFan)
    /\ UNCHANGED <<users, invite_links, signals, channel_events,
                   user_data, now, redeems>>

\* An update that no registered handler takes: a contact outside
\* PHONE_NUMBER, /start inside a conversation (no allow_reentry), /cancel
\* outside a conversation.
unhandled(i, kind) ==
    /\ CASE kind = "contact" -> conv[i] # PHONE_NUMBER
         [] kind = "start" -> conv[i] # END
         [] kind = "cancel" -> conv[i] = END
         [] OTHER -> FALSE
    /\ seen' = seen \cup {i}
    /\ UNCHANGED <<pass, bot_users>>
    /\ last' = Answer(kind, i, <<>>, "none", NoFan)
    /\ UNCHANGED <<users, invite_links, signals, channel_events, conv,
                   user_data, now, redeems>>

\* Time passes
Tick ==
    /\ now < MaxTicks * ClockStep
    /\ now' = now + ClockStep
    /\ last' = [kind |-> "tick", uid |-> 0, args |-> <<>>, reply |-> "none",
                first |-> FALSE, fan |-> NoFan]
    /\ UNCHANGED <<users, invite_links, signals, channel_events, conv,
                   user_data, seen, redeems, pass,
                   bot_users>>

-----------------------------------------------------------------------------
(* Specifications *)

UnhandledKinds == {"contact", "start", "cancel"}

\* The registration conversation of one identity over every text of Texts
\* and every phone of Phones.
RegIds == {2}

NextReg ==
    \E i \in RegIds :
        \/ \E outcome \in QueryOutcomes : start(i, <<>>, outcome)
        \/ \E phone_number \in Phones : phone_number_handler_contact(i, phone_number)
        \/ \E text \in Texts : phone_number_handler_text(i, text)
        \/ \E text \in Texts : name_handler(i, text)
        \/ \E text \in Texts, o1 \in QueryOutcomes, o2 \in QueryOutcomes :
              product_access_handler(i, text, o1, o2)
        \/ \E text \in Texts : handle_admin_messages(i, text, {})
        \/ cancel(i)
        \/ \E outcome \in QueryOutcomes : menu_command(i, outcome)
        \/ \E kind \in UnhandledKinds : unhandled(i, kind)

SpecReg == Init /\ [][NextReg]_vars

\* The invite ledger.  Two identities issue, present and redeem tokens and
\* register (one phone, one name, one tier) while time passes.  Every issued
\* link draws the same link_id (so that a second issue collides); the other
\* token of Tokens is only ever presented.  The ledger reads nothing of the
\* membership, and every get_chat_member of this specification fails.
InviteIds == {2, 3}
OnePhone == <<"+", "1", "0", "0">>
OneName == <<"a", "a">>
StartArgs == {<<>>} \cup {<<k>> : k \in Tokens}

NextInvite ==
    \/ \E i \in InviteIds :
        \/ \E args \in StartArgs : start(i, args, "error")
        \/ button_get_channel_link(i, "tokA")
        \/ cancel(i)
        \/ phone_number_handler_contact(i, OnePhone)
        \/ name_handler(i, OneName)
        \/ product_access_handler(i, TIER_VIP, "error", "error")
    \/ Tick

SpecInvite == Init /\ [][NextInvite]_vars

\* The fan-out.  Identities 2 and 3 register (one phone, one name, one tier)
\* and are found members or not by the query of the registration; the admin
\* (identity 1) asks for the signal and the broadcast prompts and sends the
\* text; send_message fails for any subset of the two recipients.
RecipientIds == {2, 3}
SyncOutcomes == {"member", "left", "error"}

NextFanout ==
    \/ \E i \in RecipientIds :
        \/ start(i, <<>>, "error")
        \/ phone_number_handler_contact(i, OnePhone)
        \/ name_handler(i, OneName)
        \/ \E o1 \in SyncOutcomes : product_access_handler(i, TIER_VIP, o1, "error")
    \/ \E i \in ADMIN_USER_IDS :
        \/ button_send_signal(i)
        \/ button_broadcast_message(i)
        \/ \E failing \in SUBSET RecipientIds :
              handle_admin_messages(i, OneName, failing)

SpecFanout == Init /\ [][NextFanout]_vars

\* The pass step by step.  Identity 2 registers, is found a member and is
\* later found to have left; identity 3 registers while the query fails;
\* the admin asks for a prompt and sends the text; captioned, text and bare
\* posts arrive from the signal channel and from another; each
\* send_message returns or raises.  The steps of a
\* running pass interleave with everything else.  A send_message returns
\* or raises within the timeouts of the HTTP client and the coroutine is
\* then resumed, which is the fairness of SpecPass.
PostContents == {"text", "caption", "bare"}
PassMember == 2
PassLate == 3

NextPass ==
    \/ \E i \in RecipientIds :
        \/ start(i, <<>>, "error")
        \/ phone_number_handler_contact(i, OnePhone)
        \/ name_handler(i, OneName)
    \/ product_access_handler(PassMember, TIER_VIP, "member", "error")
    \/ product_access_handler(PassLate, TIER_VIP, "error", "error")
    \/ button_membership(PassMember, "refresh_membership", "left")
    \/ \E i \in ADMIN_USER_IDS :
        \/ button_send_signal(i)
        \/ button_broadcast_message(i)
        \/ pass_begin(i, OneName)
    \/ \E in_signal_channel \in BOOLEAN, content \in PostContents :
          channel_post(in_signal_channel, content, OneName)
    \/ \E ok \in BOOLEAN : pass_send(ok)
    \/ pass_end

SpecPass ==
    /\ Init /\ [][NextPass]_vars
    /\ WF_vars(\E ok \in BOOLEAN : pass_send(ok))
    /\ WF_vars(pass_end)

\* Every kind of update: two identities that are not admins send /start
\* (with and without a token), texts, contacts, /cancel, /menu and press
\* every button, in any order.  A registration takes one phone, one name and
\* one tier, and every get_chat_member of this specification fails.
FirstIds == {2, 3}
MembershipButtons == {"membership_status", "refresh_membership"}

NextFirst ==
    \E i \in FirstIds :
        \/ \E args \in StartArgs : start(i, args, "error")
        \/ phone_number_handler_contact(i, OnePhone)
        \/ \E text \in {OneName, CANCEL_TEXT} : phone_number_handler_text(i, text)
        \/ name_handler(i, OneName)
        \/ product_access_handler(i, TIER_VIP, "error", "error")
        \/ cancel(i)
        \/ handle_admin_messages(i, OneName, {})
        \/ menu_command(i, "error")
        \/ button_profile(i)
        \/ button_get_channel_link(i, "tokA")
        \/ \E data \in MembershipButtons : button_membership(i, data, "error")
        \/ button_back_to_main(i, "error")
        \/ button_channel_stats(i)
        \/ button_admin_panel(i)
        \/ button_user_list(i)
        \/ button_send_signal(i)
        \/ button_broadcast_message(i)
        \/ \E kind \in UnhandledKinds : unhandled(i, kind)

SpecFirst == Init /\ [][NextFirst]_vars

\* The membership synchroniser.  Identity 2 registers and asks for its
\* membership by the buttons and by /menu, with every answer of
\* get_chat_member; membership changes of identities 2 and 3 are pushed,
\* for the signal channel and for another chat.
SyncIds == {2}
NotifiedIds == {2, 3}
NotifiedStatuses == {"member", "administrator", "left", "kicked"}

\* send_message of the welcome is called for a join only (lines 871-884):
\* for every other notification there is no outcome to choose
WelcomeOutcomes(in_signal_channel, old_status, new_status) ==
    IF in_signal_channel /\ ~IsMemberStatus(old_status)
                         /\ IsMemberStatus(new_status)
    THEN BOOLEAN ELSE {TRUE}

NextSync ==
    \/ \E i \in SyncIds :
        \/ start(i, <<>>, "error")
        \/ phone_number_handler_contact(i, OnePhone)
        \/ name_handler(i, OneName)
        \/ \E o1 \in {"member", "error"} :
              product_access_handler(i, TIER_VIP, o1, "error")
        \/ \E data \in MembershipButtons, outcome \in QueryOutcomes :
              button_membership(i, data, outcome)
        \/ \E outcome \in SyncOutcomes : menu_command(i, outcome)
    \/ \E from_id \in NotifiedIds, subject_id \in NotifiedIds,
          in_signal_channel \in BOOLEAN,
          old_status \in NotifiedStatuses, new_status \in NotifiedStatuses :
          \E welcome_ok \in WelcomeOutcomes(in_signal_channel, old_status,
                                             new_status) :
             chat_member_handler(from_id, subject_id, in_signal_channel,
                                 old_status, new_status, welcome_ok)

SpecSync == Init /\ [][NextSync]_vars

\* The admin gate.  Identity 2, not an admin, registers, presses the
\* buttons of the admin operations and of the statistics and sends texts;
\* the admin (identity 1) does the same; time passes.
GateIds == {2}

NextGate ==
    \/ \E i \in GateIds :
        \/ start(i, <<>>, "error")
        \/ phone_number_handler_contact(i, OnePhone)
        \/ name_handler(i, OneName)
        \/ product_access_handler(i, TIER_VIP, "error", "error")
    \/ \E i \in GateIds \cup ADMIN_USER_IDS :
        \/ handle_admin_messages(i, OneName, {})
        \/ button_channel_stats(i)
        \/ button_admin_panel(i)
        \/ button_user_list(i)
        \/ button_send_signal(i)
        \/ button_broadcast_message(i)
    \/ Tick

SpecGate == Init /\ [][NextGate]_vars

\* The users table under its three writers, called in any order, as any
\* caller of class TelegramBot may call them: save_user for an identity with
\* or without a row (a registration and a re-registration),
\* update_user_activity and update_channel_membership; time passes.
StoreIds == {2, 3}
StoreTiers == {TIER_BASIC, TIER_VIP}

\* bot_instance.save_user(user_id, ..., phone, name, product_access)
store_save_user(user_id, phone, name, product_access) ==
    /\ users' = save_user(users, user_id, phone, name, product_access, now)
    /\ last' = [kind |-> "save_user", uid |-> user_id,
                args |-> <<phone, name, product_access>>,
                reply |-> IF \E r \in users : r.user_id = user_id
                          THEN "replaced" ELSE "inserted",
                first |-> FALSE, fan |-> NoFan]
    /\ UNCHANGED <<invite_links, signals, channel_events, conv, user_data,
                   now, seen, redeems, pass,
                   bot_users>>

\* bot_instance.update_user_activity(user_id)
store_update_user_activity(user_id) ==
    /\ users' = update_user_activity(users, user_id, now)
    /\ last' = [kind |-> "update_user_activity", uid |-> user_id,
                args |-> <<>>, reply |-> "none", first |-> FALSE,
                fan |-> NoFan]
    /\ UNCHANGED <<invite_links, signals, channel_events, conv, user_data,
                   now, seen, redeems, pass,
                   bot_users>>

\* bot_instance.update_channel_membership(user_id, is_member)
store_update_channel_membership(user_id, is_member) ==
    /\ users' = update_channel_membership(users, user_id, is_member)
    /\ last' = [kind |-> "update_channel_membership", uid |-> user_id,
                args |-> <<>>, reply |-> "none", first |-> FALSE,
                fan |-> NoFan]
    /\ UNCHANGED <<invite_links, signals, channel_events, conv, user_data,
                   now, seen, redeems, pass,
                   bot_users>>

NextStore ==
    \/ \E user_id \in StoreIds :
        \/ \E phone \in Phones, product_access \in StoreTiers :
              store_save_user(user_id, phone, OneName, product_access)
        \/ store_update_user_activity(user_id)
        \/ \E is_member \in BOOLEAN :
              store_update_channel_membership(user_id, is_member)
    \/ Tick

SpecStore == Init /\ [][NextStore]_vars

\* The invite_links table under its writers, called in any order, as any
\* caller of class TelegramBot may call them: generate_invite_link for any
\* of two owners and any of the two tokens (so that a draw can collide),
\* mark_invite_used for any token, whatever validate_invite_link says of
\* it; beside them the one caller of the file, /start of an identity
\* without a row, with /cancel to leave the conversation; time passes.
LedgerOwners == {2, 3}
LedgerIds == {2}

\* bot_instance.generate_invite_link(user_id), the draw being link_id
ledger_generate_invite_link(user_id, link_id) ==
    /\ invite_links' = generate_invite_link(invite_links, link_id, user_id, now)
    /\ last' = [kind |-> "generate_invite_link", uid |-> user_id,
                args |-> <<link_id>>,
                reply |-> IF \E r \in invite_links : r.link_id = link_id
                          THEN "raised" ELSE "issued",
                first |-> FALSE, fan |-> NoFan]
    /\ UNCHANGED <<users, signals, channel_events, conv, user_data, now,
                   seen, redeems, pass,
                   bot_users>>

\* bot_instance.mark_invite_used(link_id)
ledger_mark_invite_used(link_id) ==
    /\ invite_links' = mark_invite_used(invite_links, link_id, now)
    /\ last' = [kind |-> "mark_invite_used", uid |-> 0, args |-> <<link_id>>,
                reply |-> "none", first |-> FALSE, fan |-> NoFan]
    /\ UNCHANGED <<users, signals, channel_events, conv, user_data, now,
                   seen, redeems, pass,
                   bot_users>>

NextLedger ==
    \/ \E user_id \in LedgerOwners, link_id \in Tokens :
          ledger_generate_invite_link(user_id, link_id)
    \/ \E link_id \in Tokens : ledger_mark_invite_used(link_id)
    \/ \E i \in LedgerIds :
        \/ \E args \in StartArgs : start(i, args, "error")
        \/ cancel(i)
    \/ Tick

SpecLedger == Init /\ [][NextLedger]_vars

-----------------------------------------------------------------------------
(* The simpler variants: src/src/bot.py and src/telegram_signal_bot.py.    *)
(* Both keep one dict users, keyed by chat id, whose entries hold the      *)
(* step of the identity and what it has given so far.  The handlers        *)
(* registered with the dispatcher are start, button_handler,               *)
(* contact_handler, name_handler and forward_from_channel (bot.py lines    *)
(* 165-169, telegram_signal_bot.py lines 125-129); product_handler,        *)
(* admin_signal_text_handler and admin_panel of bot.py are registered      *)
(* nowhere.  v names the variant.                                          *)

BotIds == {2, 3}
BotTexts == {OneName, TIER_VIP}

\* What a handler of a variant leaves to observe; args is the variant
BotAnswer(kind, v, uid, reply, recipients) ==
    [kind |-> kind, uid |-> uid, args |-> <<v>>, reply |-> reply,
     first |-> FALSE,
     fan |-> [NoFan EXCEPT !.audience = recipients,
                           !.total = Len(recipients)]]

\* start: a new identity gets an entry at step "phone"; a known one is
\* shown the menu
bot_start(v, i) ==
    /\ bot_users' =
          IF bot_users[v][i].step = "none"
          THEN [bot_users EXCEPT ![v][i] = [NoBotUser EXCEPT !.step = "phone"]]
          ELSE bot_users
    /\ last' = BotAnswer("bot_start", v, i,
                         IF bot_users[v][i].step = "none" THEN "ask_phone"
                         ELSE "main_menu", <<>>)
    /\ UNCHANGED <<users, invite_links, signals, channel_events, conv,
                   user_data, now, seen, redeems, pass>>

\* contact_handler: users[user_id] = {"phone": contact, "step": "name"},
\* whatever the entry was
bot_contact_handler(v, i, contact) ==
    /\ bot_users' = [bot_users EXCEPT ![v][i] =
                        [NoBotUser EXCEPT !.phone = contact, !.step = "name"]]
    /\ last' = BotAnswer("bot_contact", v, i, "phone_saved", <<>>)
    /\ UNCHANGED <<users, invite_links, signals, channel_events, conv,
                   user_data, now, seen, redeems, pass>>

\* name_handler, the one handler of a text: at step "name" it stores the
\* name and sets the step to "product" (bot.py) or "done"
\* (telegram_signal_bot.py); at every other step it does nothing
bot_name_handler(v, i, text) ==
    /\ bot_users' =
          IF bot_users[v][i].step = "name"
          THEN [bot_users EXCEPT ![v][i].name = text,
                                 ![v][i].step = IF v = "bot" THEN "product"
                                                ELSE "done"]
          ELSE bot_users
    /\ last' = BotAnswer("bot_text", v, i,
                         IF bot_users[v][i].step = "name" THEN "name_saved"
                         ELSE "none", <<>>)
    /\ UNCHANGED <<users, invite_links, signals, channel_events, conv,
                   user_data, now, seen, redeems, pass>>

\* button_handler: no branch writes users
bot_button_handler(v, i) ==
    /\ last' = BotAnswer("bot_button", v, i, "menu", <<>>)
    /\ UNCHANGED <<users, invite_links, signals, channel_events, conv,
                   user_data, now, seen, redeems, pass, bot_users>>

\* broadcast_signal: the identities send_message is called for, in the
\* order of their ids.  members: the identities get_chat_member answers
\* member, administrator or creator for (bot.py only; for the others it
\* answers another status or raises, which is caught).
broadcast_signal(v, D, members) ==
    RowsInOrder({[user_id |-> i] : i \in
                    {j \in BotIds : /\ D[j].step = "done"
                                    /\ (v = "bot" => j \in members)}})

\* A channel post.  A post with a text is matched by Filters.text &
\* ~Filters.command of name_handler, registered before
\* forward_from_channel: update.message is None for it and
\* update.message.chat_id raises AttributeError.  The other posts reach
\* forward_from_channel, which broadcasts a post of OFFICIAL_CHANNEL_ID.
bot_forward_from_channel(v, in_official_channel, content, members) ==
    /\ last' = BotAnswer("bot_channel_post", v, 0,
                         IF content = "text" THEN "error"
                         ELSE IF in_official_channel THEN "broadcast"
                         ELSE "none",
                         IF content # "text" /\ in_official_channel
                         THEN UserIdsOf(broadcast_signal(v, bot_users[v], members))
                         ELSE <<>>)
    /\ UNCHANGED <<users, invite_links, signals, channel_events, conv,
                   user_data, now, seen, redeems, pass, bot_users>>

NextBot ==
    \/ \E v \in Variants, i \in BotIds :
        \/ bot_start(v, i)
        \/ \E contact \in Phones : bot_contact_handler(v, i, contact)
        \/ \E text \in BotTexts : bot_name_handler(v, i, text)
        \/ bot_button_handler(v, i)
    \/ \E v \in Variants, in_official_channel \in BOOLEAN,
          content \in PostContents, members \in SUBSET BotIds :
             bot_forward_from_channel(v, in_official_channel, content, members)

SpecBot == Init /\ [][NextBot]_vars

-----------------------------------------------------------------------------
(* Claims *)

HandledUpdate == last.kind \notin {"init", "tick"}

\* C1 (as stated): the first update of an identity that has no User record
\* and no conversation state, whatever its kind, leaves the conversation of
\* that identity at PHONE_NUMBER (awaiting_phone).
C1_FirstEventAnyKind ==
    (HandledUpdate /\ last.first) => conv[last.uid] = PHONE_NUMBER

\* C1 (amended): when the first update of such an identity is a /start
\* command (with or without a token argument), its conversation is at
\* PHONE_NUMBER afterwards; a first update of any other kind leaves the
\* identity without conversation state.
C1_FirstStart ==
    (HandledUpdate /\ last.first) =>
        /\ get_user(users, last.uid) = {}
        /\ IF last.kind = "start"
           THEN conv[last.uid] = PHONE_NUMBER /\ last.reply = "welcome"
           ELSE conv[last.uid] = END

\* A newcomer sends /start after another identity has registered and issued
\* a link.
C1_Witness ==
    /\ last.kind = "start" /\ last.first
    /\ conv[last.uid] = PHONE_NUMBER
    /\ \E r \in users : r.user_id # last.uid
    /\ invite_links # {}

\* C2: a registration that is completed for an identity without a record
\* leaves exactly one users row of that identity, and the row holds the
\* phone of the contact step, the (stripped) name of the name step and the
\* tier of the tier step of that conversation, which are the values the
\* confirmation shows; each step holds the value it has just acknowledged.
C2_RegistrationRecord ==
    LET i == last.uid
    IN /\ last.reply = "phone_ok" =>
            /\ user_data[i].phone_number = last.args[1]
            /\ last.args[1] \in Phones
       /\ last.reply = "name_ok" =>
            /\ user_data[i].name = last.args[1]
            /\ Len(last.args[1]) >= 2
       /\ last.reply = "registered" =>
            /\ Cardinality(get_user(users, i)) = 1
            /\ \A r \in get_user(users, i) :
                  /\ r.phone_number = user_data[i].phone_number
                  /\ r.name = user_data[i].name
                  /\ <<r.phone_number, r.name, r.product_access>> = last.args
                  /\ r.phone_number \in Phones
                  /\ r.name # None
                  /\ r.product_access \in TierLabels

\* The three steps are done and the row is there.
C2_Witness ==
    /\ last.reply = "registered"
    /\ \E r \in users :
          /\ r.user_id = last.uid
          /\ r.phone_number = user_data[last.uid].phone_number
          /\ r.name = user_data[last.uid].name
          /\ r.product_access = TIER_GOLD

\* C3: a text of fewer than 2 characters submitted at NAME leaves the
\* conversation at NAME, stores no name and writes no users row.
C3_ShortNameRejected ==
    [][\A i \in UserIds :
          conv[i] = NAME =>
              \A text \in {x \in Texts : Len(x) < 2} :
                  name_handler(i, text)
                      => /\ conv'[i] = NAME
                         /\ user_data'[i].name = user_data[i].name
                         /\ users' = users]_vars

\* A name was refused, the conversation waits for a name.
C3_Witness ==
    /\ last.reply = "name_invalid"
    /\ conv[last.uid] = NAME
    /\ user_data[last.uid].name = None

\* C4: a text submitted at PRODUCT_ACCESS that is not exactly one of the
\* four tier labels leaves the conversation at PRODUCT_ACCESS and the users
\* table as it was.  (On such a text the handler returns before any
\* get_chat_member, so the outcomes of the queries do not matter.)
C4_UnlistedTierRejected ==
    [][\A i \in UserIds :
          conv[i] = PRODUCT_ACCESS =>
              \A text \in Texts \ TierLabels :
                  product_access_handler(i, text, "error", "error")
                      => /\ conv'[i] = PRODUCT_ACCESS
                         /\ users' = users]_vars

\* A tier was refused, the conversation waits for a tier, nothing is stored.
C4_Witness ==
    /\ last.reply = "tier_invalid"
    /\ conv[last.uid] = PRODUCT_ACCESS
    /\ get_user(users, last.uid) = {}

\* The row of a link_id in a ledger
LinkRows(L, link_id) == {r \in L : r.link_id = link_id}

\* C5: right after generate_invite_link has issued a link for an identity,
\* validate_invite_link on the issued link_id returns that identity; after
\* mark_invite_used on a link_id, validate_invite_link on it returns Invalid
\* (None), for the redemptions /start has made and for every row of the
\* ledger.
C5_IssueValidateMarkUsed ==
    /\ (last.kind = "button" /\ last.reply = "invite_link") =>
            validate_invite_link(invite_links, last.args[1], now) = last.uid
    /\ \A k \in Tokens :
          redeems[k] > 0 =>
              validate_invite_link(invite_links, k, now) = Invalid
    /\ \A r \in invite_links :
          validate_invite_link(mark_invite_used(invite_links, r.link_id, now),
                               r.link_id, now) = Invalid

\* The owner has issued a link and redeemed it in the same hour: the row is
\* used and validate_invite_link refuses it.
C5_Witness ==
    /\ last.kind = "start" /\ last.args # <<>>
    /\ \E r \in invite_links :
          /\ r.link_id = last.args[1] /\ r.user_id = last.uid
          /\ r.created_date = now
          /\ r.used = 1 /\ r.used_date = now
          /\ redeems[r.link_id] = 1
          /\ user_data[last.uid].from_invite_link

\* C6: validate_invite_link on a link whose expiry_date is not later than
\* the current time returns Invalid, also when used is still 0.
C6_ExpiredInvalid ==
    \A r \in invite_links :
        (r.used = 0 /\ r.expiry_date <= now) =>
            validate_invite_link(invite_links, r.link_id, now) = Invalid

\* The owner presents the never used link at the very hour of its expiry
\* and is not flagged.
C6_Witness ==
    /\ last.kind = "start" /\ last.args # <<>>
    /\ \E r \in invite_links :
          /\ r.link_id = last.args[1] /\ r.user_id = last.uid
          /\ r.used = 0 /\ r.expiry_date = now
    /\ ~user_data[last.uid].from_invite_link
    /\ conv[last.uid] = PHONE_NUMBER

\* C7: a link that validate_invite_link refuses because it is used or
\* expired is refused after every step (issue, /start with or without a
\* link, registration steps, passing of time): each step keeps every row of
\* the ledger with its link_id, owner and expiry_date, never clears used,
\* and never turns time back.
C7_InvalidForever ==
    [][/\ now' >= now
       /\ \A r \in invite_links :
            /\ Cardinality(LinkRows(invite_links', r.link_id)) = 1
            /\ \A q \in LinkRows(invite_links', r.link_id) :
                  /\ q.user_id = r.user_id
                  /\ q.expiry_date = r.expiry_date
                  /\ r.used = 1 => q.used = 1
            /\ validate_invite_link(invite_links, r.link_id, now) = Invalid
                  => validate_invite_link(invite_links', r.link_id, now')
                        = Invalid]_vars

\* The owner presents the link again after it was used and has expired:
\* still one redemption.
C7_Witness ==
    /\ last.kind = "start" /\ last.args # <<>>
    /\ \E r \in invite_links :
          /\ r.link_id = last.args[1] /\ r.user_id = last.uid
          /\ r.used = 1 /\ r.used_date < now /\ r.expiry_date < now
          /\ redeems[r.link_id] = 1
    /\ conv[last.uid] = PHONE_NUMBER

\* C8: of the redemption attempts of one link (validate_invite_link then
\* mark_invite_used, lines 326-328 of start), at most one finds the link
\* valid and marks it used.  start runs from its first line to the await of
\* its reply without yielding, and the Application (built without
\* concurrent_updates) handles one update at a time, so the two attempts
\* interleave only as whole steps, in either order of the presenters.
C8_AtMostOneRedemption ==
    /\ \A k \in Tokens : redeems[k] <= 1
    /\ \A k \in Tokens :
          redeems[k] = 1 =>
              /\ \E r \in invite_links : r.link_id = k /\ r.used = 1
              /\ \A i \in UserIds :
                    ~honoured(validate_invite_link(invite_links, k, now), i)

\* The owner has redeemed the link, cancelled, and presents the link a
\* second time within the same hour, long before its expiry: the second
\* attempt is answered but redeems nothing.
C8_Witness ==
    /\ last.kind = "start" /\ last.args # <<>>
    /\ last.reply = "welcome"
    /\ \E r \in invite_links :
          /\ r.link_id = last.args[1] /\ r.user_id = last.uid
          /\ r.used = 1 /\ r.used_date = now /\ now < r.expiry_date
          /\ r.created_date < now
          /\ redeems[r.link_id] = 1

\* C9: when an identity other than the owner presents an unused, unexpired
\* link on /start, the ledger is left as it was (the link stays unused) and
\* from_invite_link of the presenter is not set.
C9_OwnerOnly ==
    [][\A i \in UserIds, k \in Tokens :
          (/\ \E r \in invite_links :
                 /\ r.link_id = k /\ r.user_id # i
                 /\ r.used = 0 /\ now < r.expiry_date
           /\ start(i, <<k>>, "error"))
              => /\ invite_links' = invite_links
                 /\ user_data'[i].from_invite_link
                       = user_data[i].from_invite_link
                 /\ redeems' = redeems]_vars

\* Another identity has presented the link of the owner, which is still
\* valid for the owner afterwards.
C9_Witness ==
    /\ last.kind = "start" /\ last.args # <<>>
    /\ last.reply = "welcome"
    /\ ~user_data[last.uid].from_invite_link
    /\ \E r \in invite_links :
          /\ r.link_id = last.args[1] /\ r.user_id # last.uid
          /\ r.used = 0 /\ now < r.expiry_date
          /\ validate_invite_link(invite_links, r.link_id, now) = r.user_id

\* The recipients of the audience for which send_message raises
FailingOf(fan) == {fan.audience[k] : k \in 1..Len(fan.audience)} \cap fan.failing

\* C10: in a manual signal or a broadcast, whatever subset of the recipients
\* send_message fails for, every recipient of the audience is attempted
\* exactly once, in order; an attempt fails exactly for a failing
\* recipient; sent_count is the audience size minus the number of failing
\* recipients, failed_count is that number, and sent_count + failed_count
\* is the number of attempts, which is the size of the audience.
C10_FanOutIsolation ==
    last.reply \in {"signal_sent", "broadcast_sent"} =>
        LET fan == last.fan
        IN /\ Len(fan.attempts) = Len(fan.audience)
           /\ \A k \in 1..Len(fan.attempts) :
                 /\ fan.attempts[k].chat_id = fan.audience[k]
                 /\ fan.attempts[k].ok = (fan.audience[k] \notin fan.failing)
           /\ \A k \in 1..Len(fan.audience), j \in 1..Len(fan.audience) :
                 fan.audience[k] = fan.audience[j] => k = j
           /\ fan.sent_count = Len(fan.audience) - Cardinality(FailingOf(fan))
           /\ fan.failed_count = Cardinality(FailingOf(fan))
           /\ fan.sent_count + fan.failed_count = Len(fan.attempts)
           /\ fan.total = Len(fan.audience)

\* Two recipients, the send to the first fails and the second is still
\* served.
C10_Witness ==
    /\ last.reply \in {"signal_sent", "broadcast_sent"}
    /\ Len(last.fan.attempts) = 2
    /\ ~last.fan.attempts[1].ok
    /\ last.fan.attempts[2].ok
    /\ last.fan.sent_count = 1 /\ last.fan.failed_count = 1

\* The identities attempted, in order
ChatIdsOf(attempts) == [k \in 1..Len(attempts) |-> attempts[k].chat_id]

\* The successful attempts of a pass
Successes(p) == Cardinality({k \in 1..Len(p.attempts) : p.attempts[k].ok})

\* C11: the signals table changes only at the end of a fan-out pass (manual
\* signal, broadcast, auto-forward), after every recipient of the audience
\* has been attempted, and then by exactly one appended row whose
\* recipient_count is the number of successful sends of that pass; every
\* pass that ends appends its row.
C11_OneRecordAfterPass ==
    [][/\ signals' # signals =>
            /\ pass.active /\ ~pass'.active
            /\ Len(pass.attempts) = Len(pass.audience)
            /\ Len(signals') = Len(signals) + 1
            /\ SubSeq(signals', 1, Len(signals)) = signals
            /\ signals'[Len(signals')].recipient_count = Successes(pass)
            /\ signals'[Len(signals')].signal_type = pass.kind
            /\ signals'[Len(signals')].admin_id = pass.admin_id
       /\ (pass.active /\ ~pass'.active) => Len(signals') = Len(signals) + 1
      ]_vars

\* A broadcast to two recipients of which one send failed has ended: the
\* row counts 1, not 2.
C11_Witness ==
    /\ ~pass.active
    /\ last.reply = "broadcast_sent"
    /\ last.fan.total = 2
    /\ Len(signals) = 1
    /\ signals[1].recipient_count = 1
    /\ signals[1].signal_type = "broadcast"

\* C20: a pass that has started reaches its end and writes its row; the
\* audience is the list read from users when the pass starts, it stays as
\* read while the pass runs, whatever registrations complete and
\* membership flags change meanwhile, and the identities attempted are,
\* in order, those of that list.
C20_PassRunsToCompletion ==
    /\ [][/\ (~pass.active /\ pass'.active) =>
                /\ pass'.audience = UserIdsOf(audience_of(users, pass'.kind))
                /\ pass'.attempts = <<>>
          /\ (pass.active /\ pass'.active) =>
                /\ pass'.audience = pass.audience
                /\ pass'.kind = pass.kind
                /\ Len(pass'.attempts) <= Len(pass.audience)
                /\ \A k \in 1..Len(pass'.attempts) :
                      pass'.attempts[k].chat_id = pass.audience[k]
          /\ (pass.active /\ ~pass'.active) =>
                /\ ChatIdsOf(pass.attempts) = pass.audience
                /\ Len(signals') = Len(signals) + 1
         ]_vars
    /\ \A n \in 0..MaxPasses :
          (pass.active /\ Len(signals) = n)
              ~> (~pass.active /\ Len(signals) = n + 1)

\* A broadcast has ended that attempted identity 2 only, and identity 3,
\* whose registration completed while the pass was running, is in the
\* users table.
C20_Witness ==
    /\ ~pass.active
    /\ last.reply = "broadcast_sent"
    /\ last.fan.audience = <<PassMember>>
    /\ ChatIdsOf(last.fan.attempts) = <<PassMember>>
    /\ UserIdsOf(get_all_users(users)) = <<PassMember, PassLate>>
    /\ Len(signals) = 1

\* The identities outside the allow-list
NonAdmins == UserIds \ ADMIN_USER_IDS

\* C12: a text message of an identity outside ADMIN_USER_IDS starts no
\* fan-out and writes no signals row: the step leaves signals as it was
\* and reports no send; and handle_admin_messages denies such an identity
\* whatever the values of waiting_for_signal and waiting_for_broadcast.
C12_NonAdminTextSendsNothing ==
    /\ [][(last'.kind = "text" /\ last'.uid \in NonAdmins) =>
              /\ signals' = signals
              /\ last'.fan = NoFan
              /\ pass' = pass]_vars
    /\ [](\A i \in NonAdmins, ws \in BOOLEAN, wb \in BOOLEAN :
             pending_prompt(i, [user_data[i] EXCEPT
                                   !.waiting_for_signal = ws,
                                   !.waiting_for_broadcast = wb]) = "denied")

\* A registered identity that is no admin has sent a text outside any
\* conversation while a broadcast prompt of the admin is pending and there
\* are users to send to: nothing is answered, nothing is recorded.
C12_Witness ==
    /\ last.kind = "text" /\ last.uid \in NonAdmins
    /\ last.reply = "none"
    /\ conv[last.uid] = END
    /\ get_all_users(users) # <<>>
    /\ \E a \in ADMIN_USER_IDS : user_data[a].waiting_for_broadcast
    /\ signals = <<>>

\* C13 (as stated): for an identity outside ADMIN_USER_IDS, the statistics,
\* the user listing, the manual signal trigger and the broadcast trigger
\* are denied before anything else executes: nothing of the users table is
\* answered, no prompt flag is set and no field of the store is written.
C13_AdminOpsDeniedFirst ==
    [][\A i \in NonAdmins :
          (\/ button_channel_stats(i)
           \/ button_user_list(i)
           \/ button_send_signal(i)
           \/ button_broadcast_message(i))
              => /\ last'.reply = "none"
                 /\ user_data' = user_data
                 /\ users' = users]_vars

\* C13 (amended): for an identity outside ADMIN_USER_IDS, the admin panel,
\* the user listing, the manual signal trigger and the broadcast trigger
\* are denied: nothing of the users table is answered, no prompt flag is
\* set, and the only write is the one button_handler makes before it
\* dispatches, the last_activity of the row of the requester.  The channel
\* statistics are not gated: they are answered to every identity.
C13_GatedOps ==
    [][\A i \in NonAdmins :
          /\ (\/ button_admin_panel(i)
              \/ button_user_list(i)
              \/ button_send_signal(i)
              \/ button_broadcast_message(i))
                 => /\ last'.reply \in {"none", "no_admin_access"}
                    /\ last'.fan = NoFan
                    /\ user_data' = user_data
                    /\ users' = update_user_activity(users, i, now)
                    /\ UNCHANGED <<signals, invite_links, channel_events>>
          /\ button_channel_stats(i)
                 => /\ last'.reply \in {"channel_stats", "error"}
                    /\ user_data' = user_data
                    /\ users' = update_user_activity(users, i, now)
                    /\ UNCHANGED <<signals, invite_links, channel_events>>
      ]_vars

\* A registered identity that is no admin has pressed the button of an
\* admin operation some hours after its registration: it is answered
\* nothing, carries no prompt flag, and its last_activity is the current
\* time.
C13_Witness ==
    /\ last.kind = "button" /\ last.uid \in NonAdmins
    /\ last.reply = "none"
    /\ ~user_data[last.uid].waiting_for_signal
    /\ ~user_data[last.uid].waiting_for_broadcast
    /\ \E r \in users :
          /\ r.user_id = last.uid
          /\ r.registration_date < now
          /\ r.last_activity = now

\* C14 (as stated): the cancel button text or the /cancel command, received
\* at PHONE_NUMBER, NAME or PRODUCT_ACCESS, ends the conversation and
\* writes no users row.
C14_CancelAnyState ==
    [][\A i \in UserIds :
          conv[i] # END =>
              ((\/ cancel(i)
                \/ phone_number_handler_text(i, CANCEL_TEXT)
                \/ name_handler(i, CANCEL_TEXT)
                \/ product_access_handler(i, CANCEL_TEXT, "error", "error"))
                  => /\ conv'[i] = END
                     /\ users' = users)]_vars

\* C14 (amended): the /cancel command received at PHONE_NUMBER, NAME or
\* PRODUCT_ACCESS, and the cancel button text received at PHONE_NUMBER, end
\* the conversation and write no users row, and a following /start of the
\* identity, which has no row, leads to PHONE_NUMBER again.  The cancel
\* button text received at NAME is stored as the name and the conversation
\* moves on to PRODUCT_ACCESS; received at PRODUCT_ACCESS it is refused as
\* a tier and the conversation stays.
C14_CancelCommand ==
    [][\A i \in UserIds :
          /\ conv[i] # END =>
                /\ cancel(i) => (conv'[i] = END /\ users' = users)
                /\ phone_number_handler_text(i, CANCEL_TEXT)
                      => (conv'[i] = END /\ users' = users)
                /\ name_handler(i, CANCEL_TEXT)
                      => /\ conv'[i] = PRODUCT_ACCESS
                         /\ user_data'[i].name = CANCEL_TEXT
                         /\ users' = users
                /\ product_access_handler(i, CANCEL_TEXT, "error", "error")
                      => (conv'[i] = PRODUCT_ACCESS /\ users' = users)
          /\ (conv[i] = END /\ ~\E r \in users : r.user_id = i) =>
                (start(i, <<>>, "error") => conv'[i] = PHONE_NUMBER)
      ]_vars

\* An identity whose earlier conversation had got as far as its name and
\* was cancelled has sent /start again and is asked for its phone.
C14_Witness ==
    /\ last.kind = "start" /\ last.reply = "welcome"
    /\ conv[last.uid] = PHONE_NUMBER
    /\ user_data[last.uid].name # None
    /\ ~\E r \in users : r.user_id = last.uid

\* C15: a /start (with or without a link) of an identity that has a users
\* row does not enter the conversation: the identity stays without
\* conversation state, the phone_number, name, product_access and
\* registration_date of its row stay as they were, the ledger is left as
\* it was (no link is marked used) and from_invite_link is not set.
C15_RegisteredStartShortCircuits ==
    [][\A i \in UserIds :
          (\E r \in users : r.user_id = i) =>
              \A args \in StartArgs :
                  start(i, args, "error")
                      => /\ conv[i] = END /\ conv' = conv
                         /\ last'.reply = "main_menu"
                         /\ invite_links' = invite_links
                         /\ redeems' = redeems
                         /\ user_data' = user_data
                         /\ \A r \in users :
                               r.user_id = i =>
                                   \E q \in users' :
                                      /\ q.user_id = i
                                      /\ q.phone_number = r.phone_number
                                      /\ q.name = r.name
                                      /\ q.product_access = r.product_access
                                      /\ q.registration_date = r.registration_date
                         /\ Cardinality({q \in users' : q.user_id = i}) = 1
      ]_vars

\* A registered identity has sent /start with its own link, which is
\* unused and not expired, some hours after its registration: it sees the
\* main menu and the link is still unused.
C15_Witness ==
    /\ last.kind = "start" /\ last.reply = "main_menu"
    /\ last.args # <<>>
    /\ \E k \in invite_links :
          /\ k.link_id = last.args[1] /\ k.user_id = last.uid
          /\ k.used = 0 /\ now < k.expiry_date
    /\ \E r \in users : r.user_id = last.uid /\ r.registration_date < now

\* The identities of a list of rows, as a set
IdSetOf(rows) == {rows[k].user_id : k \in 1..Len(rows)}

\* C16 (as stated): when get_chat_member raises for the identity that
\* pressed a membership button, the button is answered "not a member" and
\* no exception reaches the handler, and afterwards the identity is stored
\* as not a member: the channel_member of its row is 0 and it is not in the
\* list get_channel_members returns.
C16_FailedQueryClearsFlag ==
    (last.kind = "button" /\ last.args = <<"error">>) =>
        /\ last.reply = "not_member"
        /\ \A r \in users : r.user_id = last.uid => r.channel_member = 0
        /\ last.uid \notin IdSetOf(get_channel_members(users))

\* C17: a membership button or /menu for which get_chat_member answers a
\* status sets the channel_member of the rows of the identity to 1 for
\* member, administrator and creator and to 0 for every other status, and
\* appends exactly one channel_events row of the identity, channel_joined
\* for 1 and channel_left for 0, whatever the flag was before.
C17_RefreshWritesAndLogs ==
    [][\A i \in SyncIds, outcome \in MemberStatuses :
          (/\ last'.kind \in {"button", "menu"}
           /\ \/ \E data \in MembershipButtons :
                    button_membership(i, data, outcome)
              \/ menu_command(i, outcome))
              => /\ \A r \in users' :
                       r.user_id = i =>
                           r.channel_member =
                               (IF outcome \in {"member", "administrator", "creator"}
                                THEN 1 ELSE 0)
                 /\ {r.user_id : r \in users'} = {r.user_id : r \in users}
                 /\ channel_events' =
                       Append(channel_events,
                              [user_id |-> i,
                               event_type |->
                                   IF outcome \in {"member", "administrator", "creator"}
                                   THEN "channel_joined" ELSE "channel_left"])
      ]_vars

\* A registered member has pressed a membership button and was found a
\* member again: the log ends with two channel_joined rows of the identity
\* and the flag is 1.
C17_Witness ==
    /\ last.kind = "button" /\ last.args = <<"member">>
    /\ last.reply = "is_member"
    /\ Len(channel_events) >= 2
    /\ \A k \in {Len(channel_events) - 1, Len(channel_events)} :
          /\ channel_events[k].user_id = last.uid
          /\ channel_events[k].event_type = "channel_joined"
    /\ \E r \in users : r.user_id = last.uid /\ r.channel_member = 1

\* C18: chat_member_handler writes channel_member, appends a
\* channel_events row and (for a join) tries the welcome message only for
\* an update of SIGNAL_CHANNEL_ID whose old and new status differ in
\* membership; for equal membership, or for another chat, users and
\* channel_events stay as they were and nothing is sent.
C18_PushedChangeEdgeTriggered ==
    [][last'.kind = "chat_member" =>
          LET from_id == last'.uid
              was_member == IsMemberStatus(last'.args[2])
              is_member == IsMemberStatus(last'.args[3])
          IN IF last'.args[1] = "signal_channel" /\ was_member # is_member
             THEN /\ users' = update_channel_membership(users, from_id,
                                                        is_member)
                  /\ Len(channel_events') = Len(channel_events) + 1
                  /\ SubSeq(channel_events', 1, Len(channel_events))
                         = channel_events
                  /\ channel_events'[Len(channel_events')] =
                         [user_id |-> from_id,
                          event_type |-> IF is_member THEN "channel_joined"
                                         ELSE "channel_left"]
                  /\ (last'.reply # "none") <=> is_member
             ELSE /\ users' = users
                  /\ channel_events' = channel_events
                  /\ last'.reply = "none"
      ]_vars

\* A notification of SIGNAL_CHANNEL_ID that turns a member into an
\* administrator has been handled for a registered identity whose stored
\* flag is 0: the flag is still 0 and nothing was sent.
C18_Witness ==
    /\ last.kind = "chat_member"
    /\ last.args = <<"signal_channel", "member", "administrator", last.uid>>
    /\ last.reply = "none"
    /\ \E r \in users : r.user_id = last.uid /\ r.channel_member = 0

\* C19: the list a signal is sent to holds exactly the identities of the
\* users rows with is_active = 1 and channel_member set; the list a
\* broadcast is sent to holds exactly the identities of the rows with
\* is_active = 1; each identity is listed once, and an identity without a
\* row is in neither list.
C19_Audiences ==
    (last.kind = "text" /\ last.reply \in {"signal_sent", "broadcast_sent"}) =>
        LET ids == {last.fan.audience[k] : k \in 1..Len(last.fan.audience)}
        IN /\ Cardinality(ids) = Len(last.fan.audience)
           /\ ids \subseteq {r.user_id : r \in users}
           /\ last.reply = "signal_sent" =>
                 ids = {r.user_id : r \in {q \in users :
                           q.is_active = 1 /\ q.channel_member = 1}}
           /\ last.reply = "broadcast_sent" =>
                 ids = {r.user_id : r \in {q \in users : q.is_active = 1}}

\* A signal has gone to one identity while two are registered (the other
\* is no member) and a third identity has no row.
C19_Witness ==
    /\ last.kind = "text" /\ last.reply = "signal_sent"
    /\ Len(last.fan.audience) = 1
    /\ Cardinality({r.user_id : r \in users}) = 2
    /\ \E i \in UserIds : \A r \in users : r.user_id # i

\* C21: whatever the order of save_user, update_user_activity and
\* update_channel_membership calls, the users table holds at most one row
\* per user_id; and a save_user, also for an identity that has a row, leaves
\* that identity's row with the phone, name and tier of the call and with
\* registration_date equal to the time of the call, and leaves the rows of
\* the other identities as they were.
C21_OneRowLatestWins ==
    /\ [](\A r \in users, q \in users : r.user_id = q.user_id => r = q)
    /\ [][last'.kind = "save_user" =>
             /\ \E r \in users' :
                   /\ r.user_id = last'.uid
                   /\ <<r.phone_number, r.name, r.product_access>> = last'.args
                   /\ r.registration_date = now
             /\ {r \in users' : r.user_id # last'.uid}
                    = {r \in users : r.user_id # last'.uid}
             /\ Cardinality({r \in users' : r.user_id = last'.uid}) = 1
       ]_vars

\* An identity that had a row is registered again, later, with another
\* phone and another tier, while another identity has a row too: the table
\* holds two rows and the row of the identity is the one just written.
C21_Witness ==
    /\ last.kind = "save_user" /\ last.reply = "replaced"
    /\ now = 2 * ClockStep
    /\ Cardinality(users) = 2
    /\ \E r \in users :
          /\ r.user_id = last.uid
          /\ r.registration_date = now
          /\ r.phone_number = <<"+", "2", "0", "0">>
          /\ r.product_access = TIER_BASIC

\* C22: at PHONE_NUMBER a contact message stores its phone number in
\* user_data and moves the conversation to NAME; a text other than the
\* cancel button, a /menu and a /start leave the conversation at
\* PHONE_NUMBER and user_data as it was.
C22_PhoneStep ==
    [][\A i \in RegIds :
          conv[i] = PHONE_NUMBER =>
              /\ \A phone_number \in Phones :
                    phone_number_handler_contact(i, phone_number)
                        => /\ conv'[i] = NAME
                           /\ user_data'[i].phone_number = phone_number
              /\ \A text \in Texts \ {CANCEL_TEXT} :
                    phone_number_handler_text(i, text)
                        => /\ conv'[i] = PHONE_NUMBER
                           /\ user_data' = user_data
              /\ (last'.uid = i /\ last'.kind \in {"menu", "start"})
                    => /\ conv'[i] = PHONE_NUMBER
                       /\ user_data' = user_data
      ]_vars

\* An identity that has started a conversation and shared no contact has
\* sent a text that is not the cancel button: it is asked to use the share
\* button, it is still at PHONE_NUMBER and no phone is held for it.
C22_Witness ==
    /\ last.kind = "text" /\ last.reply = "use_share_button"
    /\ conv[last.uid] = PHONE_NUMBER
    /\ user_data[last.uid].phone_number = None

\* s neither begins nor ends with a space
Trimmed(s) == s = <<>> \/ (Head(s) # " " /\ s[Len(s)] # " ")

\* The part of a text between its leading and its trailing spaces
Core(text) ==
    IF \A k \in 1..Len(text) : text[k] = " " THEN <<>>
    ELSE LET a == CHOOSE k \in 1..Len(text) :
                     text[k] # " " /\ \A j \in 1..(k - 1) : text[j] = " "
             b == CHOOSE k \in 1..Len(text) :
                     text[k] # " " /\ \A j \in (k + 1)..Len(text) : text[j] = " "
         IN SubSeq(text, a, b)

\* C23 (as stated): at NAME every text of two or more characters is
\* accepted: the text is stored as the name and the conversation moves to
\* PRODUCT_ACCESS.
C23_LongTextAccepted ==
    [][\A i \in RegIds :
          conv[i] = NAME =>
              \A text \in Texts :
                  (Len(text) >= 2 /\ name_handler(i, text))
                      => /\ conv'[i] = PRODUCT_ACCESS
                         /\ user_data'[i].name = text]_vars

\* C23 (amended): at NAME every text that has two or more characters left
\* when its leading and trailing spaces are taken away is accepted: what is
\* left is stored as the name and the conversation moves to
\* PRODUCT_ACCESS; a text with fewer characters left is refused, whatever
\* its length.
C23_LongCoreAccepted ==
    [][\A i \in RegIds :
          conv[i] = NAME =>
              \A text \in Texts :
                  name_handler(i, text)
                      => IF Len(Core(text)) >= 2
                         THEN /\ conv'[i] = PRODUCT_ACCESS
                              /\ user_data'[i].name = Core(text)
                              /\ Trimmed(user_data'[i].name)
                         ELSE /\ conv'[i] = NAME
                              /\ user_data' = user_data]_vars

\* A text of more than two characters has been accepted at NAME, and what
\* is held as the name has no space around it.
C23_Witness ==
    /\ last.kind = "text" /\ last.reply = "name_ok"
    /\ conv[last.uid] = PRODUCT_ACCESS
    /\ user_data[last.uid].name = TIER_VIP

\* C24: the conversation state of an identity changes only from none to
\* PHONE_NUMBER (by /start), from PHONE_NUMBER to NAME, from NAME to
\* PRODUCT_ACCESS, from PRODUCT_ACCESS to none with the users row written
\* (completion), or from any state to none by a cancellation (/cancel, or
\* the cancel button at PHONE_NUMBER), which writes no row.
C24_StepsForward ==
    [][\A i \in RegIds :
          conv'[i] # conv[i] =>
              \/ /\ conv[i] = END /\ conv'[i] = PHONE_NUMBER
                 /\ last'.kind = "start"
              \/ conv[i] = PHONE_NUMBER /\ conv'[i] = NAME
              \/ conv[i] = NAME /\ conv'[i] = PRODUCT_ACCESS
              \/ /\ conv[i] = PRODUCT_ACCESS /\ conv'[i] = END
                 /\ last'.reply = "registered"
                 /\ \E r \in users' : r.user_id = i
              \/ /\ conv'[i] = END
                 /\ last'.reply \in {"cancelled", "registration_cancelled"}
                 /\ users' = users
      ]_vars

\* An identity has sent /start while it was asked for its name: no handler
\* took it, and the identity is still at NAME with its phone held.
C24_Witness ==
    /\ last.kind = "start" /\ last.reply = "none"
    /\ conv[last.uid] = NAME
    /\ user_data[last.uid].phone_number # None

\* C25: after a cancellation (/cancel, or the cancel button at
\* PHONE_NUMBER) and after a completed registration, user_data of the
\* identity holds neither a phone number nor a name.
C25_PartialDataDiscarded ==
    (last.reply \in {"cancelled", "registration_cancelled", "registered"}) =>
        /\ user_data[last.uid].phone_number = None
        /\ user_data[last.uid].name = None

\* The channel_events rows a successful get_chat_member leaves
EventsOf(i, outcome) ==
    IF outcome = "error" THEN <<>>
    ELSE <<[user_id |-> i,
            event_type |-> IF outcome \in {"member", "administrator", "creator"}
                           THEN "channel_joined" ELSE "channel_left"]>>

\* C26: a listed tier at PRODUCT_ACCESS writes the users row first, then
\* syncs the membership, then shows the main menu (which syncs again) and
\* ends the conversation: the row written is the one both syncs update, so
\* its channel_member is what the last successful query answered (0 if both
\* failed), the events of the two queries are logged in that order, and
\* the row exists when the menu is shown.
C26_PersistSyncMenu ==
    [][\A i \in RegIds :
          (conv[i] = PRODUCT_ACCESS /\ last'.reply = "registered") =>
              \A text \in {last'.args[3]}, o1 \in QueryOutcomes, o2 \in QueryOutcomes :
                  product_access_handler(i, text, o1, o2)
                      => /\ conv'[i] = END
                         /\ text \in TierLabels
                         /\ \E r \in users' :
                               /\ r.user_id = i
                               /\ r.product_access = text
                               /\ r.registration_date = now
                               /\ r.channel_member =
                                     (IF o2 # "error"
                                      THEN (IF o2 \in {"member", "administrator", "creator"}
                                            THEN 1 ELSE 0)
                                      ELSE IF o1 \in {"member", "administrator", "creator"}
                                      THEN 1 ELSE 0)
                         /\ channel_events' =
                               channel_events \o EventsOf(i, o1) \o EventsOf(i, o2)
      ]_vars

\* A registration has been completed while the first query found the
\* identity a member and the query of the main menu found it gone: the row
\* exists with channel_member = 0 and the log ends with a join and a leave.
C26_Witness ==
    /\ last.kind = "text" /\ last.reply = "registered"
    /\ conv[last.uid] = END
    /\ \E r \in users : r.user_id = last.uid /\ r.channel_member = 0
    /\ Len(channel_events) >= 2
    /\ channel_events[Len(channel_events) - 1] =
          [user_id |-> last.uid, event_type |-> "channel_joined"]
    /\ channel_events[Len(channel_events)] =
          [user_id |-> last.uid, event_type |-> "channel_left"]

\* A link_id that is unknown to the ledger, already used, or expired
Rejectable(link_id) ==
    \A r \in invite_links :
        r.link_id = link_id => (r.used = 1 \/ now >= r.expiry_date)

\* C27 (as stated): a /start that presents an unknown, used or expired
\* link leaves invite_links and users exactly as they were.
C27_InvalidTokenNoEffect ==
    [][last'.kind = "start" =>
          \A i \in InviteIds, k \in Tokens :
              (Rejectable(k) /\ start(i, <<k>>, "error"))
                  => /\ invite_links' = invite_links
                     /\ users' = users]_vars

\* C27 (amended): a /start that presents an unknown, used or expired link
\* leaves invite_links exactly as it was and sets no from_invite_link; it
\* leaves users exactly as it was when the identity has no row; when it
\* has one, the rows of the other identities stay and its own row changes
\* in last_activity and channel_member only, as on every /start of a
\* registered identity.
C27_InvalidTokenLedgerKept ==
    [][last'.kind = "start" =>
          \A i \in InviteIds, k \in Tokens :
              (Rejectable(k) /\ start(i, <<k>>, "error"))
                  => /\ invite_links' = invite_links
                     /\ redeems' = redeems
                     /\ user_data' = user_data
                     /\ {r \in users' : r.user_id # i}
                            = {r \in users : r.user_id # i}
                     /\ \A r \in users :
                           r.user_id = i =>
                               \E q \in users' :
                                   /\ [q EXCEPT !.last_activity = 0,
                                                !.channel_member = 0]
                                        = [r EXCEPT !.last_activity = 0,
                                                    !.channel_member = 0]
                                   /\ q.last_activity = now
                     /\ Cardinality(users') = Cardinality(users)]_vars

\* An identity without a row has presented a link that is in the ledger,
\* unused, and expired: it is welcomed as without a link, and the link is
\* still unused.
C27_Witness ==
    /\ last.kind = "start" /\ last.reply = "welcome" /\ last.args # <<>>
    /\ ~\E r \in users : r.user_id = last.uid
    /\ ~user_data[last.uid].from_invite_link
    /\ \E k \in invite_links :
          /\ k.link_id = last.args[1]
          /\ k.used = 0 /\ k.used_date = NullDate
          /\ now >= k.expiry_date

\* C28: a row of invite_links that is marked used keeps its used flag and
\* its used_date through every later mark_invite_used call and every later
\* /start; and a mark_invite_used call for a link that is unknown, expired
\* or already used leaves invite_links as it was.
C28_UsedOnce ==
    [][/\ \A r \in invite_links :
             r.used = 1 =>
                 \E q \in invite_links' :
                     /\ q.link_id = r.link_id
                     /\ q.used = 1 /\ q.used_date = r.used_date
       /\ (last'.kind = "mark_invite_used" /\ Rejectable(last'.args[1]))
             => invite_links' = invite_links]_vars

\* C29: no two rows of invite_links have the same link_id, every row has
\* one owner and expiry_date = created_date + INVITE_LINK_EXPIRY_HOURS; a
\* generate_invite_link call whose draw is new adds the row of the caller,
\* created at the time of the call and unused, and leaves every other row
\* as it was; a call whose draw is in the table already leaves the table
\* as it was.
C29_IssueAddsOnly ==
    /\ [](\A r \in invite_links, q \in invite_links :
             /\ r.link_id = q.link_id => r = q
             /\ r.expiry_date = r.created_date + INVITE_LINK_EXPIRY_HOURS)
    /\ [][last'.kind = "generate_invite_link" =>
             IF \E r \in invite_links : r.link_id = last'.args[1]
             THEN invite_links' = invite_links
             ELSE /\ invite_links \subseteq invite_links'
                  /\ invite_links' \ invite_links =
                        {[link_id |-> last'.args[1], user_id |-> last'.uid,
                          created_date |-> now,
                          expiry_date |-> now + INVITE_LINK_EXPIRY_HOURS,
                          used |-> 0, used_date |-> NullDate]}
       ]_vars

\* An issue for one owner has drawn the link_id that another owner holds
\* since an earlier hour, while a second link is in the table: the insert
\* raised and the first owner still holds the link.
C29_Witness ==
    /\ last.kind = "generate_invite_link" /\ last.reply = "raised"
    /\ Cardinality(invite_links) = 2
    /\ \E r \in invite_links :
          /\ r.link_id = last.args[1]
          /\ r.user_id # last.uid
          /\ r.created_date < now

\* C30: a notification of SIGNAL_CHANNEL_ID whose old and new status
\* differ in membership writes channel_member of, and logs the
\* channel_events row for, the identity whose status changed
\* (new_chat_member.user), also when another identity (from_user) made the
\* change.
C30_SubjectReconciled ==
    [][(/\ last'.kind = "chat_member"
        /\ last'.args[1] = "signal_channel"
        /\ IsMemberStatus(last'.args[2]) # IsMemberStatus(last'.args[3]))
          => /\ users' = update_channel_membership(
                             users, last'.args[4],
                             IsMemberStatus(last'.args[3]))
             /\ Len(channel_events') = Len(channel_events) + 1
             /\ channel_events'[Len(channel_events')].user_id = last'.args[4]
      ]_vars

\* The place of a step in the order of the registration
StepRank(step) ==
    CASE step = "none" -> 0 [] step = "phone" -> 1 [] step = "name" -> 2
      [] step = "product" -> 3 [] step = "done" -> 4

\* C34: in both simpler variants, once the step of an identity is past
\* "phone", no update moves it to an earlier step or erases or changes the
\* name or the product stored for it.
C34_BotStepsForward ==
    [][\A v \in Variants, i \in BotIds :
          StepRank(bot_users[v][i].step) >= 2 =>
              /\ StepRank(bot_users'[v][i].step) >= StepRank(bot_users[v][i].step)
              /\ bot_users[v][i].name # None
                    => bot_users'[v][i].name = bot_users[v][i].name
              /\ bot_users[v][i].product # None
                    => bot_users'[v][i].product = bot_users[v][i].product
      ]_vars

\* C40: in src/src/bot.py a text of an identity at step "product" stores
\* the product and sets the step to "done" (so that /start, a contact, a
\* name and a product lead to "done"), and a channel post is sent to
\* identities at step "done" only.
C40_BotRegistrationCompletes ==
    [][/\ \A i \in BotIds :
             (/\ bot_users["bot"][i].step = "product"
              /\ last'.kind = "bot_text" /\ last'.uid = i
              /\ last'.args = <<"bot">>)
                 => bot_users'["bot"][i].step = "done"
       /\ (last'.kind = "bot_channel_post" /\ last'.args = <<"bot">>)
             => \A k \in 1..Len(last'.fan.audience) :
                   bot_users["bot"][last'.fan.audience[k]].step = "done"
      ]_vars

\* C31: a channel post of SIGNAL_CHANNEL_ID with a text or a caption
\* starts a pass to the channel members (get_channel_members) for the
\* record type auto_forward and the sender 0; a post of another chat, and a
\* post with neither text nor caption, start no pass and write no signals
\* row.
C31_PostsForwarded ==
    [][last'.kind = "channel_post" =>
          \A in_signal_channel \in BOOLEAN, content \in PostContents :
              channel_post(in_signal_channel, content, OneName)
                  => IF in_signal_channel /\ content \in {"text", "caption"}
                     THEN /\ pass'.active
                          /\ pass'.kind = "auto_forward"
                          /\ pass'.admin_id = 0
                          /\ pass'.audience =
                                UserIdsOf(SelectSeq(get_all_users(users),
                                     LAMBDA u : u.channel_member = 1))
                     ELSE /\ pass' = pass
                          /\ signals' = signals]_vars

\* C32 (as stated): the signal_type of every signals row is manual_signal,
\* broadcast or auto_forward.
C32_CategoriesAsNamed ==
    \A k \in 1..Len(signals) :
        signals[k].signal_type \in {"manual_signal", "broadcast", "auto_forward"}

\* C32 (amended): the signal_type of every signals row is signal,
\* broadcast or auto_forward: the row a manual signal of an admin leaves
\* has signal, the row of a broadcast of an admin has broadcast, and the
\* row of a forwarded channel post has auto_forward and the sender 0.
C32_Categories ==
    /\ [](\A k \in 1..Len(signals) :
             signals[k].signal_type \in {"signal", "broadcast", "auto_forward"})
    /\ [][signals' # signals =>
             LET row == signals'[Len(signals')]
             IN /\ Len(signals') = Len(signals) + 1
                /\ last'.reply \in {"signal_sent", "broadcast_sent",
                                    "auto_forwarded"}
                /\ last'.reply = "signal_sent"
                      => (row.signal_type = "signal"
                            /\ row.admin_id \in ADMIN_USER_IDS)
                /\ last'.reply = "broadcast_sent"
                      => (row.signal_type = "broadcast"
                            /\ row.admin_id \in ADMIN_USER_IDS)
                /\ last'.reply = "auto_forwarded"
                      => (row.signal_type = "auto_forward" /\ row.admin_id = 0)
       ]_vars

\* A broadcast of the admin has reached its end with one send made: its
\* row has the type broadcast and the admin as sender.
C32_Witness ==
    /\ last.reply = "broadcast_sent"
    /\ Len(signals) = 1
    /\ signals[1].signal_type = "broadcast"
    /\ signals[1].admin_id \in ADMIN_USER_IDS
    /\ signals[1].recipient_count = 1

C35_CancelDropsPrompt ==
    [][(/\ last.kind = "button"
        /\ last.reply = "admin_panel"
        /\ last.uid \in ADMIN_USER_IDS
        /\ last'.kind = "text"
        /\ last'.uid = last.uid)
          => /\ signals' = signals
             /\ last'.fan = NoFan]_vars

\* C36: after a membership button or /menu of an identity for which
\* get_chat_member answers a status, and after a notification of
\* SIGNAL_CHANNEL_ID that an identity has become or has ceased to be a
\* member, the channel_member of the users row of that identity is the
\* status just reported, in whatever order the two arrive.
C36_FlagIsLatestReport ==
    [][/\ \A i \in SyncIds, outcome \in MemberStatuses :
             (/\ last'.kind \in {"button", "menu"}
              /\ \/ \E data \in MembershipButtons :
                       button_membership(i, data, outcome)
                 \/ menu_command(i, outcome))
                 => \A r \in users' :
                        r.user_id = i =>
                            r.channel_member =
                                (IF IsMemberStatus(outcome) THEN 1 ELSE 0)
       /\ (/\ last'.kind = "chat_member"
           /\ last'.args[1] = "signal_channel"
           /\ IsMemberStatus(last'.args[2]) # IsMemberStatus(last'.args[3]))
             => \A r \in users' :
                    r.user_id = last'.args[4] =>
                        r.channel_member =
                            (IF IsMemberStatus(last'.args[3]) THEN 1 ELSE 0)
      ]_vars

\* C37: a save_user for an identity that has a users row leaves the
\* channel_member and the is_active of that row as they were.
C37_ReRegistrationKeepsFlags ==
    [][(last'.kind = "save_user" /\ last'.reply = "replaced")
          => \A r \in users, q \in users' :
                 (r.user_id = last'.uid /\ q.user_id = last'.uid)
                     => /\ q.channel_member = r.channel_member
                        /\ q.is_active = r.is_active]_vars

\* C38: every invite_links row and every channel_events row is written for
\* an identity that has a users row at the time of the write.
C38_WritesForRegistered ==
    [][/\ \A l \in invite_links' \ invite_links :
             \E r \in users' : r.user_id = l.user_id
       /\ Len(channel_events') > Len(channel_events)
             => \E r \in users' :
                    r.user_id = channel_events'[Len(channel_events')].user_id
      ]_vars

\* C39: the statistics button and the admin panel button are answered with
\* their text for every content of the users table, the empty table
\* included: neither handler ends in an exception.
C39_StatsAlwaysAnswer ==
    [][last'.kind = "button" =>
          \A i \in GateIds \cup ADMIN_USER_IDS :
              (button_channel_stats(i) \/ button_admin_panel(i))
                  => last'.reply # "error"]_vars

=============================================================================
